---------------------------- MODULE Spec2Model ----------------------------
(***************************************************************************)
(* Career-guidance service: the recommendation generator                   *)
(* (career_agent.py), the roadmap generator (roadmap_generator.py,         *)
(* marketing_consultant_roadmap.py), the company-data provider             *)
(* (web_scraper.py over the company_data table of database.py) and the     *)
(* orchestrator CareerGuidanceAgent.process_query.                         *)
(*                                                                         *)
(* Texts are TLA+ strings; where the code looks inside a text (lower(),    *)
(* "in", ILIKE, f-string concatenation) the text is spelled out as a       *)
(* sequence of one-character strings by Chars.  Python None is NoneStr for *)
(* optional texts and the empty tuple for optional numbers.                *)
(***************************************************************************)
EXTENDS Integers, Sequences, FiniteSets, TLC

\* ------------------------------------------------------------------ bounds
MaxCompanies == 2     \* longest company list handed to the generator
MaxMixedTrends == 2   \* longest trend list of arbitrary impacts
MaxHighTrends == 11   \* longest all-High trend list
TicksPerDay == 2      \* clock resolution: ticks in one day
MaxStoreSteps == 3    \* endpoint calls and clock moves in one run
MaxHandleSteps == 2   \* handled queries and clock moves in one run
MaxFaultySteps == 1   \* handled queries in one run of SpecHandle
MaxServiceWrites == 1 \* writing requests in one run of SpecService
MaxServiceReads == 2  \* read-only requests in one run of SpecService
MaxCallSteps == 3     \* calls begun and clock moves in one run of SpecCalls
MaxPending == 2       \* calls suspended at their await at one time
MaxCurrentSkills == 4 \* current skills handed to analyze_skills_gap

\* ------------------------------------------------------- program constants
RecCap == 10          \* recommendations[:10]
StaleDays == 7        \* .days < 7
PopularLimit == 5     \* popular_companies[:5]
CommonRoleLimit == 3  \* common_roles[:3]

VARIABLES
    gen_in,        \* _generate_recommendations: its arguments
    gen_out,       \* ... and what it returned (<<>> before the call)
    rm_in,         \* generate_roadmap: its arguments
    rm_out,        \* ... and the Roadmap it returned (<<>> before)
    store,         \* company_data table: rows in rowid order
    queries,       \* career_queries table: rows in rowid order
    db_ok,         \* the database can be reached
    now,           \* datetime.now(), in ticks
    utc_offset,    \* datetime.now() - datetime.utcnow(), in ticks
    driver,        \* per JobMarketScraper instance: self.driver is set
    calls,         \* get_company_data calls made so far: argument, time, result
    response,      \* the CareerResponse of the last process_query
    steps,         \* requests served and clock moves made so far
    sk_in,         \* get_role_skills: the roles asked for, in call order
    sk_out,        \* ... and the records returned so far
    pending,       \* get_company_data calls suspended at their await
    tables,        \* the five tables besides career_queries and company_data
    replies,       \* what the read-only endpoints answered, in call order
    gap_in,        \* analyze_skills_gap: the arguments of the call
    gap_out,       \* ... and what it returned
    sessions       \* database sessions opened and not closed so far

vars == <<gen_in, gen_out, rm_in, rm_out, store, queries, db_ok, now,
          utc_offset, driver, calls, response, steps,
          sk_in, sk_out, pending, tables, replies, gap_in, gap_out, sessions>>

\* The variables of the skill catalog, the suspended calls, the schema-only
\* tables, the read-only endpoints and the skills-gap analysis.
extra == <<sk_in, sk_out, pending, tables, replies, gap_in, gap_out>>

\* ----------------------------------------------------------------- helpers
NoneStr == "<None>"
NoNumber == <<>>
Some(v) == <<v>>

Min(a, b) == IF a < b THEN a ELSE b

Take(s, n) == SubSeq(s, 1, Min(n, Len(s)))

SeqsUpTo(S, n) == UNION {[1..k -> S] : k \in 0..n}

RECURSIVE SumSeq(_)
SumSeq(s) == IF s = <<>> THEN 0 ELSE Head(s) + SumSeq(Tail(s))

Range(s) == {s[i] : i \in DOMAIN s}

\* F applied to the value of v, v being evaluated once.
Once(v, F(_)) == CHOOSE y \in {F(x) : x \in {v}} : TRUE

\* ------------------------------------------------------------ spellings
\* The characters of every text the model looks inside.  A character
\* outside ASCII is written as a name in braces and counts as one character.
Chars(s) ==
    CASE s = "tech" -> <<"t", "e", "c", "h">>
      [] s = "mba" -> <<"m", "b", "a">>
      [] s = "TECH" -> <<"T", "E", "C", "H">>
      [] s = "Mba" -> <<"M", "b", "a">>
      [] s = "quantum" -> <<"q", "u", "a", "n", "t", "u", "m">>
      [] s = "" -> <<>>
      [] s = "marketing" -> <<"m", "a", "r", "k", "e", "t", "i", "n", "g">>
      [] s = "Marketing" -> <<"M", "a", "r", "k", "e", "t", "i", "n", "g">>
      [] s = "MARKETING" -> <<"M", "A", "R", "K", "E", "T", "I", "N", "G">>
      [] s = "marketing consultant" -> <<"m", "a", "r", "k", "e", "t", "i", "n", "g", " ", "c", "o", "n", "s", "u", "l", "t", "a", "n", "t">>
      [] s = "Marketing Consultant" -> <<"M", "a", "r", "k", "e", "t", "i", "n", "g", " ", "C", "o", "n", "s", "u", "l", "t", "a", "n", "t">>
      [] s = "marketing_consultant" -> <<"m", "a", "r", "k", "e", "t", "i", "n", "g", "_", "c", "o", "n", "s", "u", "l", "t", "a", "n", "t">>
      [] s = "consulting" -> <<"c", "o", "n", "s", "u", "l", "t", "i", "n", "g">>
      [] s = "Strategy Consulting" -> <<"S", "t", "r", "a", "t", "e", "g", "y", " ", "C", "o", "n", "s", "u", "l", "t", "i", "n", "g">>
      [] s = "finance" -> <<"f", "i", "n", "a", "n", "c", "e">>
      [] s = "Finance" -> <<"F", "i", "n", "a", "n", "c", "e">>
      [] s = "operations" -> <<"o", "p", "e", "r", "a", "t", "i", "o", "n", "s">>
      [] s = "frontend" -> <<"f", "r", "o", "n", "t", "e", "n", "d">>
      [] s = "Backend" -> <<"B", "a", "c", "k", "e", "n", "d">>
      [] s = "backend" -> <<"b", "a", "c", "k", "e", "n", "d">>
      [] s = "data_science" -> <<"d", "a", "t", "a", "_", "s", "c", "i", "e", "n", "c", "e">>
      [] s = "devops" -> <<"d", "e", "v", "o", "p", "s">>
      [] s = "blockchain" -> <<"b", "l", "o", "c", "k", "c", "h", "a", "i", "n">>
      [] s = "general" -> <<"g", "e", "n", "e", "r", "a", "l">>
      [] s = "Google" -> <<"G", "o", "o", "g", "l", "e">>
      [] s = "google" -> <<"g", "o", "o", "g", "l", "e">>
      [] s = "Microsoft" -> <<"M", "i", "c", "r", "o", "s", "o", "f", "t">>
      [] s = "Amazon" -> <<"A", "m", "a", "z", "o", "n">>
      [] s = "Apple" -> <<"A", "p", "p", "l", "e">>
      [] s = "Meta" -> <<"M", "e", "t", "a">>
      [] s = "Netflix" -> <<"N", "e", "t", "f", "l", "i", "x">>
      [] s = "Uber" -> <<"U", "b", "e", "r">>
      [] s = "Airbnb" -> <<"A", "i", "r", "b", "n", "b">>
      [] s = "Spotify" -> <<"S", "p", "o", "t", "i", "f", "y">>
      [] s = "Tesla" -> <<"T", "e", "s", "l", "a">>
      [] s = "McKinsey & Company" -> <<"M", "c", "K", "i", "n", "s", "e", "y", " ", "&", " ", "C", "o", "m", "p", "a", "n", "y">>
      [] s = "McKinsey" -> <<"M", "c", "K", "i", "n", "s", "e", "y">>
      [] s = "Bain & Company" -> <<"B", "a", "i", "n", " ", "&", " ", "C", "o", "m", "p", "a", "n", "y">>
      [] s = "Boston Consulting Group" -> <<"B", "o", "s", "t", "o", "n", " ", "C", "o", "n", "s", "u", "l", "t", "i", "n", "g", " ", "G", "r", "o", "u", "p">>
      [] s = "ZS Associates" -> <<"Z", "S", " ", "A", "s", "s", "o", "c", "i", "a", "t", "e", "s">>
      [] s = "Nielsen" -> <<"N", "i", "e", "l", "s", "e", "n">>
      [] s = "Prophet" -> <<"P", "r", "o", "p", "h", "e", "t">>
      [] s = "Kantar" -> <<"K", "a", "n", "t", "a", "r">>
      [] s = "Goldman Sachs" -> <<"G", "o", "l", "d", "m", "a", "n", " ", "S", "a", "c", "h", "s">>
      [] s = "JP Morgan" -> <<"J", "P", " ", "M", "o", "r", "g", "a", "n">>
      [] s = "Morgan Stanley" -> <<"M", "o", "r", "g", "a", "n", " ", "S", "t", "a", "n", "l", "e", "y">>
      [] s = "Blackstone" -> <<"B", "l", "a", "c", "k", "s", "t", "o", "n", "e">>
      [] s = ": " -> <<":", " ">>
      [] s = "Oct" -> <<"O", "c", "t">>
      [] s = "Refine Focus" -> <<"R", "e", "f", "i", "n", "e", " ", "F", "o", "c", "u", "s">>
      [] s = "software_engineer" -> <<"s", "o", "f", "t", "w", "a", "r", "e", "_", "e", "n", "g", "i", "n", "e", "e", "r">>
      [] s = "data_scientist" -> <<"d", "a", "t", "a", "_", "s", "c", "i", "e", "n", "t", "i", "s", "t">>
      [] s = "product_manager" -> <<"p", "r", "o", "d", "u", "c", "t", "_", "m", "a", "n", "a", "g", "e", "r">>
      [] s = "devops_engineer" -> <<"d", "e", "v", "o", "p", "s", "_", "e", "n", "g", "i", "n", "e", "e", "r">>
      [] s = "frontend_developer" -> <<"f", "r", "o", "n", "t", "e", "n", "d", "_", "d", "e", "v", "e", "l", "o", "p", "e", "r">>
      [] s = "backend_developer" -> <<"b", "a", "c", "k", "e", "n", "d", "_", "d", "e", "v", "e", "l", "o", "p", "e", "r">>
      [] s = "consultant" -> <<"c", "o", "n", "s", "u", "l", "t", "a", "n", "t">>
      [] s = "investment_banker" -> <<"i", "n", "v", "e", "s", "t", "m", "e", "n", "t", "_", "b", "a", "n", "k", "e", "r">>
      [] s = "marketing_manager" -> <<"m", "a", "r", "k", "e", "t", "i", "n", "g", "_", "m", "a", "n", "a", "g", "e", "r">>
      [] s = "operations_manager" -> <<"o", "p", "e", "r", "a", "t", "i", "o", "n", "s", "_", "m", "a", "n", "a", "g", "e", "r">>
      [] s = "strategy_analyst" -> <<"s", "t", "r", "a", "t", "e", "g", "y", "_", "a", "n", "a", "l", "y", "s", "t">>
      [] s = "Data Scientist" -> <<"D", "a", "t", "a", " ", "S", "c", "i", "e", "n", "t", "i", "s", "t">>
      [] s = "DATA-SCIENTIST" -> <<"D", "A", "T", "A", "-", "S", "C", "I", "E", "N", "T", "I", "S", "T">>
      [] s = "unknown_role_xyz" -> <<"u", "n", "k", "n", "o", "w", "n", "_", "r", "o", "l", "e", "_", "x", "y", "z">>
      [] s = "HTML & CSS Fundamentals" -> <<"H", "T", "M", "L", " ", "&", " ", "C", "S", "S", " ", "F", "u", "n", "d", "a", "m", "e", "n", "t", "a", "l", "s">>
      [] s = "JavaScript Basics" -> <<"J", "a", "v", "a", "S", "c", "r", "i", "p", "t", " ", "B", "a", "s", "i", "c", "s">>
      [] s = "React/Vue/Angular" -> <<"R", "e", "a", "c", "t", "/", "V", "u", "e", "/", "A", "n", "g", "u", "l", "a", "r">>
      [] s = "State Management" -> <<"S", "t", "a", "t", "e", " ", "M", "a", "n", "a", "g", "e", "m", "e", "n", "t">>
      [] s = "Testing & Deployment" -> <<"T", "e", "s", "t", "i", "n", "g", " ", "&", " ", "D", "e", "p", "l", "o", "y", "m", "e", "n", "t">>
      [] s = "Programming Language" -> <<"P", "r", "o", "g", "r", "a", "m", "m", "i", "n", "g", " ", "L", "a", "n", "g", "u", "a", "g", "e">>
      [] s = "Database Management" -> <<"D", "a", "t", "a", "b", "a", "s", "e", " ", "M", "a", "n", "a", "g", "e", "m", "e", "n", "t">>
      [] s = "API Development" -> <<"A", "P", "I", " ", "D", "e", "v", "e", "l", "o", "p", "m", "e", "n", "t">>
      [] s = "Authentication & Security" -> <<"A", "u", "t", "h", "e", "n", "t", "i", "c", "a", "t", "i", "o", "n", " ", "&", " ", "S", "e", "c", "u", "r", "i", "t", "y">>
      [] s = "Cloud & DevOps" -> <<"C", "l", "o", "u", "d", " ", "&", " ", "D", "e", "v", "O", "p", "s">>
      [] s = "Python & Statistics" -> <<"P", "y", "t", "h", "o", "n", " ", "&", " ", "S", "t", "a", "t", "i", "s", "t", "i", "c", "s">>
      [] s = "Data Manipulation" -> <<"D", "a", "t", "a", " ", "M", "a", "n", "i", "p", "u", "l", "a", "t", "i", "o", "n">>
      [] s = "Machine Learning" -> <<"M", "a", "c", "h", "i", "n", "e", " ", "L", "e", "a", "r", "n", "i", "n", "g">>
      [] s = "Deep Learning" -> <<"D", "e", "e", "p", " ", "L", "e", "a", "r", "n", "i", "n", "g">>
      [] s = "Data Visualization" -> <<"D", "a", "t", "a", " ", "V", "i", "s", "u", "a", "l", "i", "z", "a", "t", "i", "o", "n">>
      [] s = "Linux & Command Line" -> <<"L", "i", "n", "u", "x", " ", "&", " ", "C", "o", "m", "m", "a", "n", "d", " ", "L", "i", "n", "e">>
      [] s = "Version Control" -> <<"V", "e", "r", "s", "i", "o", "n", " ", "C", "o", "n", "t", "r", "o", "l">>
      [] s = "Containerization" -> <<"C", "o", "n", "t", "a", "i", "n", "e", "r", "i", "z", "a", "t", "i", "o", "n">>
      [] s = "Cloud Platforms" -> <<"C", "l", "o", "u", "d", " ", "P", "l", "a", "t", "f", "o", "r", "m", "s">>
      [] s = "CI/CD & Monitoring" -> <<"C", "I", "/", "C", "D", " ", "&", " ", "M", "o", "n", "i", "t", "o", "r", "i", "n", "g">>
      [] s = "Problem Solving & Structured Thinking" -> <<"P", "r", "o", "b", "l", "e", "m", " ", "S", "o", "l", "v", "i", "n", "g", " ", "&", " ", "S", "t", "r", "u", "c", "t", "u", "r", "e", "d", " ", "T", "h", "i", "n", "k", "i", "n", "g">>
      [] s = "Analytical & Quantitative Skills" -> <<"A", "n", "a", "l", "y", "t", "i", "c", "a", "l", " ", "&", " ", "Q", "u", "a", "n", "t", "i", "t", "a", "t", "i", "v", "e", " ", "S", "k", "i", "l", "l", "s">>
      [] s = "Communication & Storytelling" -> <<"C", "o", "m", "m", "u", "n", "i", "c", "a", "t", "i", "o", "n", " ", "&", " ", "S", "t", "o", "r", "y", "t", "e", "l", "l", "i", "n", "g">>
      [] s = "Case Interview Mastery" -> <<"C", "a", "s", "e", " ", "I", "n", "t", "e", "r", "v", "i", "e", "w", " ", "M", "a", "s", "t", "e", "r", "y">>
      [] s = "Business & Industry Knowledge" -> <<"B", "u", "s", "i", "n", "e", "s", "s", " ", "&", " ", "I", "n", "d", "u", "s", "t", "r", "y", " ", "K", "n", "o", "w", "l", "e", "d", "g", "e">>
      [] s = "Networking & Applications" -> <<"N", "e", "t", "w", "o", "r", "k", "i", "n", "g", " ", "&", " ", "A", "p", "p", "l", "i", "c", "a", "t", "i", "o", "n", "s">>
      [] s = "Financial Fundamentals" -> <<"F", "i", "n", "a", "n", "c", "i", "a", "l", " ", "F", "u", "n", "d", "a", "m", "e", "n", "t", "a", "l", "s">>
      [] s = "Financial Modeling" -> <<"F", "i", "n", "a", "n", "c", "i", "a", "l", " ", "M", "o", "d", "e", "l", "i", "n", "g">>
      [] s = "Investment Banking Prep" -> <<"I", "n", "v", "e", "s", "t", "m", "e", "n", "t", " ", "B", "a", "n", "k", "i", "n", "g", " ", "P", "r", "e", "p">>
      [] s = "Refine Focus + Skills (Oct-Nov)" -> <<"R", "e", "f", "i", "n", "e", " ", "F", "o", "c", "u", "s", " ", "+", " ", "S", "k", "i", "l", "l", "s", " ", "(", "O", "c", "t", "-", "N", "o", "v", ")">>
      [] s = "Build Consulting Skills (Nov-Dec)" -> <<"B", "u", "i", "l", "d", " ", "C", "o", "n", "s", "u", "l", "t", "i", "n", "g", " ", "S", "k", "i", "l", "l", "s", " ", "(", "N", "o", "v", "-", "D", "e", "c", ")">>
      [] s = "Portfolio Building (Dec-Jan)" -> <<"P", "o", "r", "t", "f", "o", "l", "i", "o", " ", "B", "u", "i", "l", "d", "i", "n", "g", " ", "(", "D", "e", "c", "-", "J", "a", "n", ")">>
      [] s = "Apply for Roles (Jan-Feb)" -> <<"A", "p", "p", "l", "y", " ", "f", "o", "r", " ", "R", "o", "l", "e", "s", " ", "(", "J", "a", "n", "-", "F", "e", "b", ")">>
      [] s = "Networking + Mentorship (Feb-Apr)" -> <<"N", "e", "t", "w", "o", "r", "k", "i", "n", "g", " ", "+", " ", "M", "e", "n", "t", "o", "r", "s", "h", "i", "p", " ", "(", "F", "e", "b", "-", "A", "p", "r", ")">>
      [] s = "Final Push (Apr-Jun)" -> <<"F", "i", "n", "a", "l", " ", "P", "u", "s", "h", " ", "(", "A", "p", "r", "-", "J", "u", "n", ")">>
      [] s = "Operations Fundamentals" -> <<"O", "p", "e", "r", "a", "t", "i", "o", "n", "s", " ", "F", "u", "n", "d", "a", "m", "e", "n", "t", "a", "l", "s">>
      [] s = "Data Analysis & Tools" -> <<"D", "a", "t", "a", " ", "A", "n", "a", "l", "y", "s", "i", "s", " ", "&", " ", "T", "o", "o", "l", "s">>
      [] s = "Project Management" -> <<"P", "r", "o", "j", "e", "c", "t", " ", "M", "a", "n", "a", "g", "e", "m", "e", "n", "t">>
      [] s = "Industry Applications" -> <<"I", "n", "d", "u", "s", "t", "r", "y", " ", "A", "p", "p", "l", "i", "c", "a", "t", "i", "o", "n", "s">>
      [] s = "Foundation Learning" -> <<"F", "o", "u", "n", "d", "a", "t", "i", "o", "n", " ", "L", "e", "a", "r", "n", "i", "n", "g">>
      [] s = "Skill Development" -> <<"S", "k", "i", "l", "l", " ", "D", "e", "v", "e", "l", "o", "p", "m", "e", "n", "t">>
      [] s = "Portfolio Building" -> <<"P", "o", "r", "t", "f", "o", "l", "i", "o", " ", "B", "u", "i", "l", "d", "i", "n", "g">>
      [] s = "Job Search & Networking" -> <<"J", "o", "b", " ", "S", "e", "a", "r", "c", "h", " ", "&", " ", "N", "e", "t", "w", "o", "r", "k", "i", "n", "g">>
      [] s = "Oct{endash}Nov (Now)" -> <<"O", "c", "t", "{endash}", "N", "o", "v", " ", "(", "N", "o", "w", ")">>
      [] s = "{mag} Refine Focus + Skills" -> <<"{mag}", " ", "R", "e", "f", "i", "n", "e", " ", "F", "o", "c", "u", "s", " ", "+", " ", "S", "k", "i", "l", "l", "s">>
      [] s = "Nov{endash}Dec" -> <<"N", "o", "v", "{endash}", "D", "e", "c">>
      [] s = "{brain} Build Consulting Skills" -> <<"{brain}", " ", "B", "u", "i", "l", "d", " ", "C", "o", "n", "s", "u", "l", "t", "i", "n", "g", " ", "S", "k", "i", "l", "l", "s">>
      [] s = "Dec{endash}Jan" -> <<"D", "e", "c", "{endash}", "J", "a", "n">>
      [] s = "{tools}{vs16} Portfolio Building" -> <<"{tools}", "{vs16}", " ", "P", "o", "r", "t", "f", "o", "l", "i", "o", " ", "B", "u", "i", "l", "d", "i", "n", "g">>
      [] s = "Jan{endash}Feb" -> <<"J", "a", "n", "{endash}", "F", "e", "b">>
      [] s = "{briefcase} Apply for Roles" -> <<"{briefcase}", " ", "A", "p", "p", "l", "y", " ", "f", "o", "r", " ", "R", "o", "l", "e", "s">>
      [] s = "Feb{endash}Apr" -> <<"F", "e", "b", "{endash}", "A", "p", "r">>
      [] s = "{speech} Networking + Mentorship" -> <<"{speech}", " ", "N", "e", "t", "w", "o", "r", "k", "i", "n", "g", " ", "+", " ", "M", "e", "n", "t", "o", "r", "s", "h", "i", "p">>
      [] s = "Apr{endash}Jun" -> <<"A", "p", "r", "{endash}", "J", "u", "n">>
      [] s = "{rocket} Final Push" -> <<"{rocket}", " ", "F", "i", "n", "a", "l", " ", "P", "u", "s", "h">>
      [] s = "Senior Software Engineer" -> <<"S", "e", "n", "i", "o", "r", " ", "S", "o", "f", "t", "w", "a", "r", "e", " ", "E", "n", "g", "i", "n", "e", "e", "r">>
      [] s = "data" -> <<"d", "a", "t", "a">>
      [] s = "product manager" -> <<"p", "r", "o", "d", "u", "c", "t", " ", "m", "a", "n", "a", "g", "e", "r">>
      [] s = "Product-Manager" -> <<"P", "r", "o", "d", "u", "c", "t", "-", "M", "a", "n", "a", "g", "e", "r">>
      [] s = "engineer" -> <<"e", "n", "g", "i", "n", "e", "e", "r">>
      [] s = "Go" -> <<"G", "o">>
      [] s = "Programming Languages" -> <<"P", "r", "o", "g", "r", "a", "m", "m", "i", "n", "g", " ", "L", "a", "n", "g", "u", "a", "g", "e", "s">>
      [] s = "Data Structures" -> <<"D", "a", "t", "a", " ", "S", "t", "r", "u", "c", "t", "u", "r", "e", "s">>
      [] s = "Algorithms" -> <<"A", "l", "g", "o", "r", "i", "t", "h", "m", "s">>
      [] s = "Cloud Computing" -> <<"C", "l", "o", "u", "d", " ", "C", "o", "m", "p", "u", "t", "i", "n", "g">>
      [] s = "DevOps" -> <<"D", "e", "v", "O", "p", "s">>
      [] s = "Mobile Development" -> <<"M", "o", "b", "i", "l", "e", " ", "D", "e", "v", "e", "l", "o", "p", "m", "e", "n", "t">>
      [] s = "Python" -> <<"P", "y", "t", "h", "o", "n">>
      [] s = "R" -> <<"R">>
      [] s = "SQL" -> <<"S", "Q", "L">>
      [] s = "Statistics" -> <<"S", "t", "a", "t", "i", "s", "t", "i", "c", "s">>
      [] s = "Big Data" -> <<"B", "i", "g", " ", "D", "a", "t", "a">>
      [] s = "Product Strategy" -> <<"P", "r", "o", "d", "u", "c", "t", " ", "S", "t", "r", "a", "t", "e", "g", "y">>
      [] s = "User Research" -> <<"U", "s", "e", "r", " ", "R", "e", "s", "e", "a", "r", "c", "h">>
      [] s = "Analytics" -> <<"A", "n", "a", "l", "y", "t", "i", "c", "s">>
      [] s = "Technical Background" -> <<"T", "e", "c", "h", "n", "i", "c", "a", "l", " ", "B", "a", "c", "k", "g", "r", "o", "u", "n", "d">>
      [] s = "Design Thinking" -> <<"D", "e", "s", "i", "g", "n", " ", "T", "h", "i", "n", "k", "i", "n", "g">>
      [] s = "Agile/Scrum" -> <<"A", "g", "i", "l", "e", "/", "S", "c", "r", "u", "m">>
      [] s = "Business Analysis" -> <<"B", "u", "s", "i", "n", "e", "s", "s", " ", "A", "n", "a", "l", "y", "s", "i", "s">>
      [] s = "Problem-Solving & Analytical Thinking" -> <<"P", "r", "o", "b", "l", "e", "m", "-", "S", "o", "l", "v", "i", "n", "g", " ", "&", " ", "A", "n", "a", "l", "y", "t", "i", "c", "a", "l", " ", "T", "h", "i", "n", "k", "i", "n", "g">>
      [] s = "Strategic Thinking" -> <<"S", "t", "r", "a", "t", "e", "g", "i", "c", " ", "T", "h", "i", "n", "k", "i", "n", "g">>
      [] s = "Exceptional Communication Skills" -> <<"E", "x", "c", "e", "p", "t", "i", "o", "n", "a", "l", " ", "C", "o", "m", "m", "u", "n", "i", "c", "a", "t", "i", "o", "n", " ", "S", "k", "i", "l", "l", "s">>
      [] s = "Data Analysis Proficiency" -> <<"D", "a", "t", "a", " ", "A", "n", "a", "l", "y", "s", "i", "s", " ", "P", "r", "o", "f", "i", "c", "i", "e", "n", "c", "y">>
      [] s = "Interpersonal Skills" -> <<"I", "n", "t", "e", "r", "p", "e", "r", "s", "o", "n", "a", "l", " ", "S", "k", "i", "l", "l", "s">>
      [] s = "Project Management Expertise" -> <<"P", "r", "o", "j", "e", "c", "t", " ", "M", "a", "n", "a", "g", "e", "m", "e", "n", "t", " ", "E", "x", "p", "e", "r", "t", "i", "s", "e">>
      [] s = "Adaptability and Flexibility" -> <<"A", "d", "a", "p", "t", "a", "b", "i", "l", "i", "t", "y", " ", "a", "n", "d", " ", "F", "l", "e", "x", "i", "b", "i", "l", "i", "t", "y">>
      [] s = "Business Acumen" -> <<"B", "u", "s", "i", "n", "e", "s", "s", " ", "A", "c", "u", "m", "e", "n">>
      [] s = "Tableau" -> <<"T", "a", "b", "l", "e", "a", "u">>
      [] s = "Advanced Excel" -> <<"A", "d", "v", "a", "n", "c", "e", "d", " ", "E", "x", "c", "e", "l">>
      [] s = "Power BI" -> <<"P", "o", "w", "e", "r", " ", "B", "I">>
      [] s = "Marketing Expertise" -> <<"M", "a", "r", "k", "e", "t", "i", "n", "g", " ", "E", "x", "p", "e", "r", "t", "i", "s", "e">>
      [] s = "Consulting Tools" -> <<"C", "o", "n", "s", "u", "l", "t", "i", "n", "g", " ", "T", "o", "o", "l", "s">>
      [] s = "Data Analytics" -> <<"D", "a", "t", "a", " ", "A", "n", "a", "l", "y", "t", "i", "c", "s">>
      [] s = "Problem-solving" -> <<"P", "r", "o", "b", "l", "e", "m", "-", "s", "o", "l", "v", "i", "n", "g">>
      [] s = "Client Communication" -> <<"C", "l", "i", "e", "n", "t", " ", "C", "o", "m", "m", "u", "n", "i", "c", "a", "t", "i", "o", "n">>
      [] s = "Storytelling" -> <<"S", "t", "o", "r", "y", "t", "e", "l", "l", "i", "n", "g">>
      [] s = "Brand Management" -> <<"B", "r", "a", "n", "d", " ", "M", "a", "n", "a", "g", "e", "m", "e", "n", "t">>
      [] s = "Digital Marketing" -> <<"D", "i", "g", "i", "t", "a", "l", " ", "M", "a", "r", "k", "e", "t", "i", "n", "g">>
      [] s = "Customer Insights" -> <<"C", "u", "s", "t", "o", "m", "e", "r", " ", "I", "n", "s", "i", "g", "h", "t", "s">>
      [] s = "SWOT Analysis" -> <<"S", "W", "O", "T", " ", "A", "n", "a", "l", "y", "s", "i", "s">>
      [] s = "4Ps Framework" -> <<"4", "P", "s", " ", "F", "r", "a", "m", "e", "w", "o", "r", "k">>
      [] s = "STP Analysis" -> <<"S", "T", "P", " ", "A", "n", "a", "l", "y", "s", "i", "s">>
      [] s = "Customer Journey Mapping" -> <<"C", "u", "s", "t", "o", "m", "e", "r", " ", "J", "o", "u", "r", "n", "e", "y", " ", "M", "a", "p", "p", "i", "n", "g">>
      [] s = "Communication" -> <<"C", "o", "m", "m", "u", "n", "i", "c", "a", "t", "i", "o", "n">>
      [] s = "Problem Solving" -> <<"P", "r", "o", "b", "l", "e", "m", " ", "S", "o", "l", "v", "i", "n", "g">>
      [] s = "Teamwork" -> <<"T", "e", "a", "m", "w", "o", "r", "k">>
      [] s = "Leadership" -> <<"L", "e", "a", "d", "e", "r", "s", "h", "i", "p">>
      [] s = "python" -> <<"p", "y", "t", "h", "o", "n">>
      [] s = "TEAMWORK" -> <<"T", "E", "A", "M", "W", "O", "R", "K">>
      [] s = "Cooking" -> <<"C", "o", "o", "k", "i", "n", "g">>

\* ------------------------------------------------------- text operations
\* str.lower() on the characters of the texts used here (ASCII letters).
UpperLetters == <<"A","B","C","D","E","F","G","H","I","J","K","L","M",
                  "N","O","P","Q","R","S","T","U","V","W","X","Y","Z">>
LowerLetters == <<"a","b","c","d","e","f","g","h","i","j","k","l","m",
                  "n","o","p","q","r","s","t","u","v","w","x","y","z">>

LowerOf ==
    [c \in {UpperLetters[i] : i \in DOMAIN UpperLetters} |->
        LowerLetters[CHOOSE i \in DOMAIN UpperLetters : UpperLetters[i] = c]]

LowerChar(c) == IF c \in DOMAIN LowerOf THEN LowerOf[c] ELSE c

Lower(cs) == [i \in DOMAIN cs |-> LowerChar(cs[i])]

\* Python's  sub in text  on character sequences.
Contains(cs, sub) ==
    \E text \in {cs}, part \in {sub} :
        \E i \in 0..(Len(text) - Len(part)) :
            SubSeq(text, i + 1, i + Len(part)) = part

\* SQL LIKE: % matches any run of characters, _ any one character.
RECURSIVE LikeMatch(_, _)
LikeMatch(p, s) ==
    IF p = <<>> THEN s = <<>>
    ELSE IF Head(p) = "%"
         THEN LikeMatch(Tail(p), s) \/ (s # <<>> /\ LikeMatch(p, Tail(s)))
         ELSE /\ s # <<>>
              /\ (Head(p) = "_" \/ Head(p) = Head(s))
              /\ LikeMatch(Tail(p), Tail(s))

\* CompanyDataDB.name.ilike(f"%{company}%"): lower(name) LIKE lower(pattern).
\* A pattern without wildcards of its own matches exactly the names that
\* contain it, which is decided without unfolding the pattern.
ILikeContains(name, company) ==
    \E c \in {Lower(Chars(company))} :
        IF \A i \in DOMAIN c : c[i] \notin {"%", "_"}
        THEN Contains(Lower(Chars(name)), c)
        ELSE LikeMatch(<<"%">> \o c \o <<"%">>, Lower(Chars(name)))

\* --------------------------------------------- recommendation generator
\* A recommendation line is kept as the block that produced it and the
\* values interpolated into it; the literal texts of different blocks are
\* pairwise different, so equal lines are equal records.
TrendLine(trend) == [block |-> "trend", text |-> trend.description]
SalaryLine(avg) == [block |-> "salary", text |-> avg]
HiringLine(active, total) == [block |-> "hiring", text |-> <<active, total>>]
FieldLine(kind, i) == [block |-> "field", text |-> <<kind, i>>]
ExperienceLine(level, i) == [block |-> "experience", text |-> <<level, i>>]
LocationLine(loc) == [block |-> "location", text |-> loc]
FallbackLine == [block |-> "fallback", text |-> "generic"]

\* Number of literal lines of each list passed to recommendations.extend.
TechLines == 4
MarketingLines == 9
ConsultingLines == 10
GenericMbaLines == 4
FreshGraduateLines == 3
EntryLevelLines == 3

\* for trend in market_trends: if trend.impact == "High": append
TrendBlock(market_trends) ==
    LET high == SelectSeq(market_trends, LAMBDA t : t.impact = "High")
    IN  [i \in DOMAIN high |-> TrendLine(high[i])]

\* if c.average_salary: None and 0 are both falsy.
HasSalary(c) == c.average_salary # NoNumber /\ c.average_salary[1] # 0

SalariedCompanies(market_data) == SelectSeq(market_data, HasSalary)

SalarySum(market_data) ==
    LET sal == SalariedCompanies(market_data)
    IN  SumSeq([i \in DOMAIN sal |-> sal[i].average_salary[1]])

\* The division of line 194 raises ZeroDivisionError when the list is not
\* empty and no company has a truthy salary.
SalaryRaises(market_data) ==
    market_data # <<>> /\ SalariedCompanies(market_data) = <<>>

\* f"{avg_salary:,.0f}": the quotient rounded half to even.
RoundHalfEven(num, den) ==
    LET q == num \div den
        r == num % den
    IN  IF 2 * r < den THEN q
        ELSE IF 2 * r > den THEN q + 1
        ELSE IF q % 2 = 0 THEN q ELSE q + 1

\* Lines 193-207, entered only when the average could be computed.
CompanyBlock(market_data) ==
    IF market_data = <<>> THEN <<>>
    ELSE
      LET sum == SalarySum(market_data)
          cnt == Len(SalariedCompanies(market_data))
          active == SelectSeq(market_data, LAMBDA c : c.hiring_status = "Active")
      IN  (IF sum # 0 THEN <<SalaryLine(RoundHalfEven(sum, cnt))>> ELSE <<>>)
          \o (IF active # <<>>
              THEN <<HiringLine(Len(active), Len(market_data))>> ELSE <<>>)

SpecializationEquals(query, word) ==
    /\ query.specialization # NoneStr
    /\ Lower(Chars(query.specialization)) = Chars(word)

\* query.specialization and word in query.specialization.lower()
SpecializationHas(query, word) ==
    /\ query.specialization # NoneStr
    /\ query.specialization # ""
    /\ Contains(Lower(Chars(query.specialization)), Chars(word))

FieldKind(query) ==
    IF query.field = "tech" THEN "tech"
    ELSE IF SpecializationHas(query, "marketing") THEN "marketing"
    ELSE IF SpecializationHas(query, "consulting") THEN "consulting"
    ELSE "mba"

FieldLineCount(kind) ==
    CASE kind = "tech" -> TechLines
      [] kind = "marketing" -> MarketingLines
      [] kind = "consulting" -> ConsultingLines
      [] kind = "mba" -> GenericMbaLines

\* Lines 209-249: query.field is tech or mba (FieldType).
FieldBlock(query) ==
    LET kind == FieldKind(query)
    IN  [i \in 1..FieldLineCount(kind) |-> FieldLine(kind, i)]

\* Lines 251-263
ExperienceBlock(query) ==
    IF query.experience_level = "fresh_graduate"
    THEN [i \in 1..FreshGraduateLines |-> ExperienceLine("fresh_graduate", i)]
    ELSE IF query.experience_level = "entry_level"
    THEN [i \in 1..EntryLevelLines |-> ExperienceLine("entry_level", i)]
    ELSE <<>>

\* Lines 265-270
LocationBlock(query) ==
    IF query.location_preference # NoneStr /\ query.location_preference # ""
    THEN <<LocationLine(query.location_preference)>>
    ELSE <<>>

AssembleBlocksSwapped(trend, company, field, experience, location) ==
    trend \o company \o experience \o field \o location

\* The order in which the try body appends its blocks.
AssembleBlocks(trend, company, field, experience, location) ==
    trend \o company \o field \o experience \o location

OnErrorDiscard(partial) == <<FallbackLine>>

\* except: recommendations.append(<generic line>) on the list built so far.
OnError(partial) == Append(partial, FallbackLine)

ReturnSliceUncapped(recommendations) == recommendations

\* return recommendations[:10]
ReturnSlice(recommendations) == Take(recommendations, RecCap)

GenerationRaises(query, market_data, market_trends) ==
    SalaryRaises(market_data)

GenerateRecommendations(query, market_data, market_trends) ==
    IF GenerationRaises(query, market_data, market_trends)
    THEN ReturnSlice(OnError(TrendBlock(market_trends)))
    ELSE ReturnSlice(AssembleBlocks(TrendBlock(market_trends),
                                    CompanyBlock(market_data),
                                    FieldBlock(query),
                                    ExperienceBlock(query),
                                    LocationBlock(query)))

\* ------------------------------------------------------ roadmap catalogs
\* A RoadmapStep is kept as its title, duration and difficulty; description,
\* resources and prerequisites are literals that no operation reads.
TechKeys == <<"frontend", "backend", "data_science", "devops">>

TechRoadmaps(key) ==
    CASE key = "frontend" ->
        [total_duration |-> "6-12 months",
         steps |-> <<[title |-> Chars("HTML & CSS Fundamentals"), duration |-> "2-3 weeks", difficulty |-> "Beginner"],
                    [title |-> Chars("JavaScript Basics"), duration |-> "4-6 weeks", difficulty |-> "Beginner"],
                    [title |-> Chars("React/Vue/Angular"), duration |-> "6-8 weeks", difficulty |-> "Intermediate"],
                    [title |-> Chars("State Management"), duration |-> "3-4 weeks", difficulty |-> "Intermediate"],
                    [title |-> Chars("Testing & Deployment"), duration |-> "3-4 weeks", difficulty |-> "Intermediate"]>>,
         skills_covered |-> <<"HTML", "CSS", "JavaScript", "React", "Testing", "Git", "Responsive Design">>]
      [] key = "backend" ->
        [total_duration |-> "8-12 months",
         steps |-> <<[title |-> Chars("Programming Language"), duration |-> "6-8 weeks", difficulty |-> "Beginner"],
                    [title |-> Chars("Database Management"), duration |-> "4-6 weeks", difficulty |-> "Beginner"],
                    [title |-> Chars("API Development"), duration |-> "4-6 weeks", difficulty |-> "Intermediate"],
                    [title |-> Chars("Authentication & Security"), duration |-> "3-4 weeks", difficulty |-> "Intermediate"],
                    [title |-> Chars("Cloud & DevOps"), duration |-> "4-6 weeks", difficulty |-> "Advanced"]>>,
         skills_covered |-> <<"Python/Java/Node.js", "SQL", "REST APIs", "Authentication", "Cloud Computing", "Docker">>]
      [] key = "data_science" ->
        [total_duration |-> "10-14 months",
         steps |-> <<[title |-> Chars("Python & Statistics"), duration |-> "6-8 weeks", difficulty |-> "Beginner"],
                    [title |-> Chars("Data Manipulation"), duration |-> "4-6 weeks", difficulty |-> "Beginner"],
                    [title |-> Chars("Machine Learning"), duration |-> "6-8 weeks", difficulty |-> "Intermediate"],
                    [title |-> Chars("Deep Learning"), duration |-> "6-8 weeks", difficulty |-> "Advanced"],
                    [title |-> Chars("Data Visualization"), duration |-> "3-4 weeks", difficulty |-> "Intermediate"]>>,
         skills_covered |-> <<"Python", "Statistics", "Machine Learning", "Deep Learning", "Data Visualization", "SQL">>]
      [] key = "devops" ->
        [total_duration |-> "8-12 months",
         steps |-> <<[title |-> Chars("Linux & Command Line"), duration |-> "4-6 weeks", difficulty |-> "Beginner"],
                    [title |-> Chars("Version Control"), duration |-> "2-3 weeks", difficulty |-> "Beginner"],
                    [title |-> Chars("Containerization"), duration |-> "4-6 weeks", difficulty |-> "Intermediate"],
                    [title |-> Chars("Cloud Platforms"), duration |-> "6-8 weeks", difficulty |-> "Intermediate"],
                    [title |-> Chars("CI/CD & Monitoring"), duration |-> "4-6 weeks", difficulty |-> "Advanced"]>>,
         skills_covered |-> <<"Linux", "Docker", "Kubernetes", "AWS/Azure/GCP", "CI/CD", "Monitoring">>]

MbaKeys == <<"consulting", "finance", "marketing_consultant", "operations">>

MbaRoadmaps(key) ==
    CASE key = "consulting" ->
        [total_duration |-> "12-18 months",
         steps |-> <<[title |-> Chars("Problem Solving & Structured Thinking"), duration |-> "6-8 weeks", difficulty |-> "Beginner"],
                    [title |-> Chars("Analytical & Quantitative Skills"), duration |-> "6-8 weeks", difficulty |-> "Intermediate"],
                    [title |-> Chars("Communication & Storytelling"), duration |-> "4-6 weeks", difficulty |-> "Intermediate"],
                    [title |-> Chars("Case Interview Mastery"), duration |-> "8-10 weeks", difficulty |-> "Advanced"],
                    [title |-> Chars("Business & Industry Knowledge"), duration |-> "4-6 weeks", difficulty |-> "Intermediate"],
                    [title |-> Chars("Networking & Applications"), duration |-> "Ongoing", difficulty |-> "Advanced"]>>,
         skills_covered |-> <<"Problem Solving", "Analytical Skills", "Communication", "Case Interview", "Business Knowledge", "Leadership">>]
      [] key = "finance" ->
        [total_duration |-> "10-14 months",
         steps |-> <<[title |-> Chars("Financial Fundamentals"), duration |-> "8-10 weeks", difficulty |-> "Beginner"],
                    [title |-> Chars("Financial Modeling"), duration |-> "6-8 weeks", difficulty |-> "Intermediate"],
                    [title |-> Chars("Investment Banking Prep"), duration |-> "6-8 weeks", difficulty |-> "Advanced"],
                    [title |-> Chars("Networking & Applications"), duration |-> "Ongoing", difficulty |-> "Advanced"]>>,
         skills_covered |-> <<"Financial Modeling", "Valuation", "Excel", "PowerPoint", "Industry Analysis">>]
      [] key = "marketing_consultant" ->
        [total_duration |-> "Final MBA Year (8 months)",
         steps |-> <<[title |-> Chars("Refine Focus + Skills (Oct-Nov)"), duration |-> "2 months", difficulty |-> "Beginner"],
                    [title |-> Chars("Build Consulting Skills (Nov-Dec)"), duration |-> "2 months", difficulty |-> "Intermediate"],
                    [title |-> Chars("Portfolio Building (Dec-Jan)"), duration |-> "2 months", difficulty |-> "Intermediate"],
                    [title |-> Chars("Apply for Roles (Jan-Feb)"), duration |-> "2 months", difficulty |-> "Advanced"],
                    [title |-> Chars("Networking + Mentorship (Feb-Apr)"), duration |-> "2 months", difficulty |-> "Advanced"],
                    [title |-> Chars("Final Push (Apr-Jun)"), duration |-> "2 months", difficulty |-> "Advanced"]>>,
         skills_covered |-> <<"Marketing Expertise", "Consulting Tools", "Data Analytics", "Problem-solving", "Client Communication", "Storytelling">>]
      [] key = "operations" ->
        [total_duration |-> "10-14 months",
         steps |-> <<[title |-> Chars("Operations Fundamentals"), duration |-> "8-10 weeks", difficulty |-> "Beginner"],
                    [title |-> Chars("Data Analysis & Tools"), duration |-> "6-8 weeks", difficulty |-> "Intermediate"],
                    [title |-> Chars("Project Management"), duration |-> "4-6 weeks", difficulty |-> "Intermediate"],
                    [title |-> Chars("Industry Applications"), duration |-> "4-6 weeks", difficulty |-> "Advanced"]>>,
         skills_covered |-> <<"Supply Chain", "Process Optimization", "Project Management", "Data Analysis", "Lean Six Sigma">>]

\* _get_default_roadmap
GetDefaultRoadmap(field) ==
    [field |-> field,
     specialization |-> "general",
     total_duration |-> "6-12 months",
     steps |-> <<[title |-> Chars("Foundation Learning"), duration |-> "2-3 months", difficulty |-> "Beginner"],
                [title |-> Chars("Skill Development"), duration |-> "2-3 months", difficulty |-> "Intermediate"],
                [title |-> Chars("Portfolio Building"), duration |-> "1-2 months", difficulty |-> "Intermediate"],
                [title |-> Chars("Job Search & Networking"), duration |-> "Ongoing", difficulty |-> "Advanced"]>>,
     skills_covered |-> <<"Communication", "Problem Solving", "Technical Skills", "Industry Knowledge">>]

\* MarketingConsultantRoadmap.get_detailed_roadmap: the entries that
\* get_roadmap_as_model reads.
DetailedRoadmap ==
    [total_duration |-> "8 months (Oct-Jun)",
     steps |-> <<[timeframe |-> "Oct{endash}Nov (Now)", focus_area |-> "{mag} Refine Focus + Skills", duration |-> "2 months", difficulty |-> "Beginner"],
                [timeframe |-> "Nov{endash}Dec", focus_area |-> "{brain} Build Consulting Skills", duration |-> "2 months", difficulty |-> "Intermediate"],
                [timeframe |-> "Dec{endash}Jan", focus_area |-> "{tools}{vs16} Portfolio Building", duration |-> "2 months", difficulty |-> "Intermediate"],
                [timeframe |-> "Jan{endash}Feb", focus_area |-> "{briefcase} Apply for Roles", duration |-> "2 months", difficulty |-> "Advanced"],
                [timeframe |-> "Feb{endash}Apr", focus_area |-> "{speech} Networking + Mentorship", duration |-> "2 months", difficulty |-> "Advanced"],
                [timeframe |-> "Apr{endash}Jun", focus_area |-> "{rocket} Final Push", duration |-> "2 months", difficulty |-> "Advanced"]>>,
     key_skills |-> <<<<"Branding", "Digital", "Customer Insights">>,
                     <<"SWOT", "4Ps", "STP", "Customer Journey Mapping">>,
                     <<"Google Analytics", "Excel", "Tableau", "PowerPoint">>,
                     <<"Problem-solving", "Client communication", "Storytelling">>>>]

\* --------------------------------------------------------- skill catalog
\* skill_mapping of get_role_skills, in the order the dict lists its keys.
SkillKeys == <<"software_engineer", "data_scientist", "product_manager", "consultant", "marketing">>

SkillMapping(key) ==
    CASE key = "software_engineer" ->
        [role |-> "Software Engineer",
         essential_skills |-> <<"Programming Languages", "Data Structures", "Algorithms", "Version Control">>,
         nice_to_have_skills |-> <<"Cloud Computing", "DevOps", "Machine Learning", "Mobile Development">>,
         experience_required |-> "0-2 years",
         certifications |-> <<"AWS Certified Developer", "Google Cloud Professional">>]
      [] key = "data_scientist" ->
        [role |-> "Data Scientist",
         essential_skills |-> <<"Python", "R", "SQL", "Machine Learning", "Statistics">>,
         nice_to_have_skills |-> <<"Deep Learning", "Big Data", "Cloud Computing", "Data Visualization">>,
         experience_required |-> "1-3 years",
         certifications |-> <<"AWS Machine Learning", "Google Data Analytics">>]
      [] key = "product_manager" ->
        [role |-> "Product Manager",
         essential_skills |-> <<"Product Strategy", "User Research", "Analytics", "Project Management">>,
         nice_to_have_skills |-> <<"Technical Background", "Design Thinking", "Agile/Scrum", "Business Analysis">>,
         experience_required |-> "2-5 years",
         certifications |-> <<"PMP", "Certified Scrum Product Owner">>]
      [] key = "consultant" ->
        [role |-> "Management Consultant",
         essential_skills |-> <<"Problem-Solving & Analytical Thinking", "Strategic Thinking", "Exceptional Communication Skills", "Data Analysis Proficiency", "Interpersonal Skills">>,
         nice_to_have_skills |-> <<"Project Management Expertise", "Adaptability and Flexibility", "Business Acumen", "SQL", "Python", "Tableau", "Advanced Excel", "Power BI">>,
         experience_required |-> "2-3 years (Entry-level), 5+ years (Senior)",
         certifications |-> <<"Certified Management Consultant (CMC)", "Financial Modeling Certification", "Business Strategy (Wharton)", "Consulting Foundations (LinkedIn Learning)">>]
      [] key = "marketing" ->
        [role |-> "Marketing Consultant",
         essential_skills |-> <<"Marketing Expertise", "Consulting Tools", "Data Analytics", "Problem-solving", "Client Communication", "Storytelling">>,
         nice_to_have_skills |-> <<"Brand Management", "Digital Marketing", "Customer Insights", "SWOT Analysis", "4Ps Framework", "STP Analysis", "Customer Journey Mapping">>,
         experience_required |-> "MBA Final Year",
         certifications |-> <<"Google Digital Marketing", "HubSpot Content Marketing", "LinkedIn Learning Marketing Strategy", "Coursera Marketing Analytics by Wharton">>]

\* ------------------------------------------------------ roadmap generator
\* Python truthiness of an optional text: None and "" are falsy.
Truthy(text) == text # NoneStr /\ text # ""

\* specialization.lower() in <catalog>
HasKey(keys, text) ==
    \E i \in DOMAIN keys : Chars(keys[i]) = Lower(Chars(text))

\* <catalog>[specialization.lower()]
KeyOf(keys, text) ==
    keys[CHOOSE i \in DOMAIN keys : Chars(keys[i]) = Lower(Chars(text))]

RECURSIVE Flatten(_)
Flatten(ss) == IF ss = <<>> THEN <<>> ELSE Head(ss) \o Flatten(Tail(ss))

\* MarketingConsultantRoadmap.get_roadmap_as_model
GetRoadmapAsModel ==
    [field |-> "mba",
     specialization |-> "marketing_consultant",
     total_duration |-> DetailedRoadmap.total_duration,
     steps |-> [i \in DOMAIN DetailedRoadmap.steps |->
                  LET step_data == DetailedRoadmap.steps[i]
                  IN  [title |-> Chars(step_data.timeframe) \o Chars(": ")
                                   \o Chars(step_data.focus_area),
                       duration |-> step_data.duration,
                       difficulty |-> step_data.difficulty]],
     skills_covered |-> Flatten(DetailedRoadmap.key_skills)]

\* _generate_tech_roadmap
GenerateTechRoadmap(specialization) ==
    LET roadmap_data ==
            IF Truthy(specialization) /\ HasKey(TechKeys, specialization)
            THEN TechRoadmaps(KeyOf(TechKeys, specialization))
            ELSE TechRoadmaps("frontend")
    IN  [field |-> "tech",
         specialization |-> IF Truthy(specialization) THEN specialization
                            ELSE "frontend",
         total_duration |-> roadmap_data.total_duration,
         steps |-> roadmap_data.steps,
         skills_covered |-> roadmap_data.skills_covered]

IsMarketingCaseSensitive(specialization) ==
    specialization = "marketing"

\* specialization and specialization.lower() == "marketing"
IsMarketing(specialization) ==
    Truthy(specialization) /\ Lower(Chars(specialization)) = Chars("marketing")

\* _generate_mba_roadmap
GenerateMbaRoadmap(specialization) ==
    IF IsMarketing(specialization) THEN GetRoadmapAsModel
    ELSE
      LET roadmap_data ==
              IF Truthy(specialization) /\ HasKey(MbaKeys, specialization)
              THEN MbaRoadmaps(KeyOf(MbaKeys, specialization))
              ELSE MbaRoadmaps("consulting")
      IN  [field |-> "mba",
           specialization |-> IF Truthy(specialization) THEN specialization
                              ELSE "consulting",
           total_duration |-> roadmap_data.total_duration,
           steps |-> roadmap_data.steps,
           skills_covered |-> roadmap_data.skills_covered]

GenerateRoadmapNoFallback(field, specialization) ==
    IF Lower(Chars(field)) = Chars("tech")
    THEN GenerateTechRoadmap(specialization)
    ELSE GenerateMbaRoadmap(specialization)

\* generate_roadmap: the ValueError of an unsupported field is caught by
\* the function's own except clause, which returns the default roadmap.
GenerateRoadmap(field, specialization) ==
    IF Lower(Chars(field)) = Chars("tech")
    THEN GenerateTechRoadmap(specialization)
    ELSE IF Lower(Chars(field)) = Chars("mba")
    THEN GenerateMbaRoadmap(specialization)
    ELSE GetDefaultRoadmap(field)

\* ----------------------------------------------------------- input sets
FieldTypes == {"tech", "mba"}
ExperienceLevels == {"fresh_graduate", "entry_level", "mid_level", "senior_level"}

\* Specializations handed to the generator.
GenSpecializations ==
    {NoneStr, "", "Marketing Consultant", "marketing", "Strategy Consulting",
     "finance"}

GenLocations == {NoneStr, "", "Pune"}

MakeQuery(field, specialization, level, companies, roles, location) ==
    [field |-> field, specialization |-> specialization,
     experience_level |-> level, target_companies |-> companies,
     target_roles |-> roles, skills |-> <<>>,
     location_preference |-> location, query_text |-> "career guidance"]

GenQueries ==
    {MakeQuery(f, s, l, <<>>, <<>>, loc) :
        f \in FieldTypes, s \in GenSpecializations,
        l \in ExperienceLevels, loc \in GenLocations}

MakeCompany(name, status, salary) ==
    [name |-> name, hiring_status |-> status, open_positions |-> 50,
     average_salary |-> salary, required_skills |-> "mock",
     company_size |-> "Large", industry |-> "Technology", last_updated |-> 0]

\* CompanyData values handed to the generator: with and without a salary,
\* hiring and not hiring.
SampleCompanies ==
    {MakeCompany("Google", "Active", Some(100000)),
     MakeCompany("ZS Associates", "Active", Some(125001)),
     MakeCompany("Nielsen", "Not Hiring", NoNumber),
     MakeCompany("Prophet", "Active", Some(0))}

TrendImpacts == {"High", "Medium", "high"}

\* Trends are told apart by their description, their position in the list.
MixedTrendLists ==
    UNION {{[i \in 1..k |-> [description |-> i, impact |-> imp[i]]] :
               imp \in [1..k -> TrendImpacts]} : k \in 0..MaxMixedTrends}

HighTrendLists ==
    {[i \in 1..k |-> [description |-> i, impact |-> "High"]] :
        k \in 0..MaxHighTrends}

GenInputs ==
    [query : GenQueries,
     market_data : SeqsUpTo(SampleCompanies, MaxCompanies),
     market_trends : MixedTrendLists \cup HighTrendLists]

RoadmapFields == {"tech", "mba", "TECH", "Mba", "quantum", ""}

RoadmapSpecializations ==
    {NoneStr, "", "marketing", "Marketing", "MARKETING", "marketing consultant",
     "marketing_consultant", "consulting", "Strategy Consulting", "Finance",
     "operations", "frontend", "Backend", "data_science", "devops",
     "blockchain"}

RoadmapInputs == [field : RoadmapFields, specialization : RoadmapSpecializations]

\* ------------------------------------------------------------ skill lookup
ReplaceChar(cs, old, new) == [i \in DOMAIN cs |-> IF cs[i] = old THEN new ELSE cs[i]]

NormalizeRoleSpacesOnly(role) ==
    ReplaceChar(Lower(Chars(role)), " ", "_")

\* role.lower().replace(" ", "_").replace("-", "_")
NormalizeRole(role) ==
    ReplaceChar(ReplaceChar(Lower(Chars(role)), " ", "_"), "-", "_")

PartialMatchKeyInRole(key, role_key) ==
    Contains(role_key, Chars(key))

\* key in role_key or role_key in key
PartialMatch(key, role_key) ==
    Contains(role_key, Chars(key)) \/ Contains(Chars(key), role_key)

GetRoleSkillsFromStore(role) ==
    [role |-> role,
     essential_skills |->
         IF store = <<>> THEN <<"Communication", "Problem Solving", "Teamwork">>
         ELSE store[Len(store)].required_skills[2],
     nice_to_have_skills |-> <<"Leadership", "Analytics", "Project Management">>,
     experience_required |-> "Varies",
     certifications |-> <<>>]

\* get_role_skills: exact key, then the first key in dict order that
\* contains or is contained in the normalized role, then the default.
GetRoleSkills(role) ==
    LET role_key == NormalizeRole(role)
        exact == {i \in DOMAIN SkillKeys : Chars(SkillKeys[i]) = role_key}
        partial == {i \in DOMAIN SkillKeys : PartialMatch(SkillKeys[i], role_key)}
    IN  IF exact # {} THEN SkillMapping(SkillKeys[CHOOSE i \in exact : TRUE])
        ELSE IF partial # {}
        THEN SkillMapping(SkillKeys[CHOOSE i \in partial : \A j \in partial : i <= j])
        ELSE [role |-> role,
              essential_skills |-> <<"Communication", "Problem Solving", "Teamwork">>,
              nice_to_have_skills |-> <<"Leadership", "Analytics", "Project Management">>,
              experience_required |-> "Varies",
              certifications |-> <<>>]

ScrapeMarketTrendsNoneHigh ==
    <<[trend_type |-> "AI/ML Growth", impact |-> "Medium",
       description |-> "Artificial Intelligence and Machine Learning roles are growing at 25% annually with high demand for specialized skills"],
      [trend_type |-> "Remote Work", impact |-> "Medium",
       description |-> "Remote work opportunities have increased by 40% post-pandemic, with hybrid models becoming standard"]>>

\* ------------------------------------------------------------ static data
\* scrape_market_trends: the four sample trends, in order.
ScrapeMarketTrends ==
    <<[trend_type |-> "AI/ML Growth", impact |-> "High",
       description |-> "Artificial Intelligence and Machine Learning roles are growing at 25% annually with high demand for specialized skills"],
      [trend_type |-> "Remote Work", impact |-> "Medium",
       description |-> "Remote work opportunities have increased by 40% post-pandemic, with hybrid models becoming standard"],
      [trend_type |-> "Sustainability Focus", impact |-> "Medium",
       description |-> "Companies are increasingly hiring for ESG and sustainability roles across all industries"],
      [trend_type |-> "Cybersecurity Demand", impact |-> "High",
       description |-> "Cybersecurity roles are in high demand with 3.5 million unfilled positions globally"]>>

\* get_layoff_statistics: the three sample records.
GetLayoffStatistics ==
    <<[company |-> "Meta", layoff_count |-> 11000, percentage |-> 13],
      [company |-> "Amazon", layoff_count |-> 18000, percentage |-> 6],
      [company |-> "Google", layoff_count |-> 12000, percentage |-> 6]>>

\* _get_popular_companies
GetPopularCompanies(field) ==
    IF field = "tech"
    THEN <<"Google", "Microsoft", "Amazon", "Apple", "Meta",
           "Netflix", "Uber", "Airbnb", "Spotify", "Tesla">>
    ELSE IF field = "mba"
    THEN <<"McKinsey & Company", "Bain & Company", "Boston Consulting Group",
           "ZS Associates", "Nielsen", "Prophet", "Kantar",
           "Goldman Sachs", "JP Morgan", "Morgan Stanley", "Blackstone",
           "Amazon", "Google", "Microsoft">>
    ELSE <<"Google", "Microsoft", "Amazon">>

\* _get_common_roles
GetCommonRoles(field) ==
    IF field = "tech"
    THEN <<"software_engineer", "data_scientist", "product_manager",
           "devops_engineer", "frontend_developer", "backend_developer">>
    ELSE IF field = "mba"
    THEN <<"consultant", "investment_banker", "product_manager",
           "marketing_manager", "operations_manager", "strategy_analyst">>
    ELSE <<"software_engineer", "consultant">>

\* ------------------------------------------------------- company provider
\* json.dumps of a list of texts is kept as the list under a tag, so that a
\* Text column and a list are different values; json.loads takes it back.
JsonDumps(list) == <<"json", list>>
JsonLoads(text) == text[2]

\* datetime.utcnow() when datetime.now() reads t.
UtcNow(t, offset) == t - offset

\* insert_sample_data: the rows of the sample companies, inserted at
\* start-up (clock 0); last_updated is the column default, utcnow.
SeedRow(name, open_positions, salary, skills, size, industry, offset) ==
    [name |-> name, hiring_status |-> "Active", open_positions |-> open_positions,
     average_salary |-> Some(salary), required_skills |-> JsonDumps(skills),
     company_size |-> size, industry |-> industry,
     last_updated |-> UtcNow(0, offset)]

SampleData(offset) ==
    <<SeedRow("Google", 150, 120000, <<"Python", "Machine Learning", "Cloud Computing">>,
              "Large", "Technology", offset),
      SeedRow("Microsoft", 200, 115000, <<"C#", "Azure", "Software Development">>,
              "Large", "Technology", offset),
      SeedRow("McKinsey & Company", 50, 130000, <<"Strategy", "Analytics", "Business Analysis">>,
              "Large", "Consulting", offset),
      SeedRow("ZS Associates", 75, 125000, <<"Marketing Analytics", "Data Science", "Consulting">>,
              "Large", "Marketing Consulting", offset),
      SeedRow("Nielsen", 40, 110000, <<"Market Research", "Consumer Insights", "Analytics">>,
              "Large", "Market Research", offset),
      SeedRow("Bain & Company", 30, 140000, <<"Strategy", "Marketing", "Case Interview", "Analytics">>,
              "Large", "Management Consulting", offset),
      SeedRow("Boston Consulting Group", 25, 135000, <<"Strategy", "Marketing", "Problem Solving", "Leadership">>,
              "Large", "Management Consulting", offset),
      SeedRow("Prophet", 15, 120000, <<"Brand Strategy", "Marketing", "Creative Thinking", "Client Management">>,
              "Medium", "Brand Consulting", offset)>>

\* The tables that init_db creates besides career_queries and company_data.
EmptyTables ==
    [job_postings |-> <<>>, market_trends |-> <<>>, layoff_data |-> <<>>,
     skill_requirements |-> <<>>, roadmaps |-> <<>>]

\* insert_sample_data: of those tables only market_trends gets sample rows.
SampleTables(offset) ==
    [EmptyTables EXCEPT !.market_trends =
        <<[trend_type |-> "AI/ML Growth", impact |-> "High",
           timeframe |-> "2024-2025", source |-> "LinkedIn Jobs Report",
           created_at |-> UtcNow(0, offset)],
          [trend_type |-> "Remote Work", impact |-> "Medium",
           timeframe |-> "2024", source |-> "Glassdoor Survey",
           created_at |-> UtcNow(0, offset)]>>]

\* scrape_glassdoor_company_data once the driver is set: the mock record,
\* stamped with datetime.now().
ScrapeGlassdoorCompanyData(company, t) ==
    [name |-> company, hiring_status |-> "Active", open_positions |-> 50,
     average_salary |-> Some(100000),
     required_skills |-> <<"Python", "JavaScript", "SQL">>,
     company_size |-> "Large", industry |-> "Technology", last_updated |-> t]

\* db.query(CompanyDataDB).filter(name.ilike(...)).first(): the first
\* matching row in rowid order, 0 when none matches.
FirstMatch(rows, company) ==
    LET m == {i \in DOMAIN rows : ILikeContains(rows[i].name, company)}
    IN  IF m = {} THEN 0 ELSE CHOOSE i \in m : \A j \in m : i <= j

\* timedelta.days
Days(delta) == delta \div TicksPerDay

IsFreshThroughDaySeven(row, t) == Days(t - row.last_updated) <= StaleDays

\* (datetime.now() - existing_data.last_updated).days < 7
IsFresh(row, t) == Days(t - row.last_updated) < StaleDays

\* The CompanyData built from a cached row (lines 220-229).
SnapshotOf(row) ==
    [name |-> row.name, hiring_status |-> row.hiring_status,
     open_positions |-> row.open_positions, average_salary |-> row.average_salary,
     required_skills |-> JsonLoads(row.required_skills),
     company_size |-> row.company_size, industry |-> row.industry,
     last_updated |-> row.last_updated]

UpdateRowRenamed(rows, i, company_data, t) ==
    [rows EXCEPT ![i] =
        [@ EXCEPT !.name = company_data.name,
                  !.hiring_status = company_data.hiring_status,
                  !.open_positions = company_data.open_positions,
                  !.average_salary = company_data.average_salary,
                  !.required_skills = JsonDumps(company_data.required_skills),
                  !.last_updated = t]]

\* Lines 237-241: the row found by the lookup is updated, whatever its name;
\* name, company_size and industry are left as they were.
UpdateRow(rows, i, company_data, t) ==
    [rows EXCEPT ![i] =
        [@ EXCEPT !.hiring_status = company_data.hiring_status,
                  !.open_positions = company_data.open_positions,
                  !.average_salary = company_data.average_salary,
                  !.required_skills = JsonDumps(company_data.required_skills),
                  !.last_updated = t]]

\* Lines 243-252: the new row; last_updated is not passed, so the column
\* default datetime.utcnow is taken when the row is flushed.
InsertRow(rows, company_data, t, offset) ==
    Append(rows,
           [name |-> company_data.name, hiring_status |-> company_data.hiring_status,
            open_positions |-> company_data.open_positions,
            average_salary |-> company_data.average_salary,
            required_skills |-> JsonDumps(company_data.required_skills),
            company_size |-> company_data.company_size,
            industry |-> company_data.industry,
            last_updated |-> UtcNow(t, offset)])

\* name = Column(String, unique=True): the commit of a new row whose name
\* is already in the table raises IntegrityError.
NameTakenNever(rows, name) == FALSE

NameTaken(rows, name) == \E j \in DOMAIN rows : rows[j].name = name

\* What a call of get_company_data leaves behind: what it returned (<<>> for
\* None), whether an exception left the call, the step that failed, the
\* table, the clock and the driver afterwards, the row the lookup found, and
\* whether the session made at line 211 is still open: the returns of lines
\* 220 and 257 come after db.close().
Reply(outcome, result, rows, t, d, existing) ==
    [outcome |-> outcome, result |-> result, raised |-> FALSE,
     failed_at |-> "none", store |-> rows, now |-> t, driver |-> d,
     existing |-> existing, session_open |-> FALSE]

OnStorageErrorReraise(rows, t, d, step) ==
    [Reply("error", <<>>, rows, t, d, <<>>) EXCEPT !.raised = TRUE,
                                                  !.failed_at = step,
                                                  !.session_open = TRUE]

\* except Exception: the error is logged and None is returned; nothing was
\* committed, and the handler does not call db.close().
OnStorageError(rows, t, d, step) ==
    [Reply("error", <<>>, rows, t, d, <<>>) EXCEPT !.failed_at = step,
                                                  !.session_open = TRUE]

\* Lines 208-229, up to the await: the session, the lookup and the
\* freshness test.  db_up: the table can be read.  When the call is not
\* done, existing is the row existing_data refers to (0: None).
LookupCompany(rows, t, db_up, drv, company) ==
    IF ~db_up
    THEN [done |-> TRUE, existing |-> 0,
          reply |-> <<OnStorageError(rows, t, drv, "lookup")>>]
    ELSE
      LET decide(i) ==
              IF i # 0 /\ IsFresh(rows[i], t)
              THEN [done |-> TRUE, existing |-> i,
                    reply |-> <<Reply("hit", <<SnapshotOf(rows[i])>>, rows, t,
                                      drv, <<rows[i]>>)>>]
              ELSE [done |-> FALSE, existing |-> i, reply |-> <<>>]
      IN  Once(FirstMatch(rows, company), decide)

\* Lines 231-261, from the await on: the scrape, the update of the row found
\* or the insert of a new one, the commit.  setup_ok: a driver set-up, if
\* attempted, succeeds; e: ticks between the scrape's datetime.now() and
\* the clock read that stamps the stored row; fault: the step at which the
\* database raises ("none", "upsert", "commit"); a commit refused by the
\* unique constraint is recorded as "unique".
RefreshCompany(rows, t, offset, drv, company, i, setup_ok, e, fault) ==
    LET found == IF i # 0 THEN <<rows[i]>> ELSE <<>>
    IN  IF ~drv /\ ~setup_ok THEN Reply("no_data", <<>>, rows, t, FALSE, found)
        ELSE
          LET company_data == ScrapeGlassdoorCompanyData(company, t)
          IN  IF fault # "none" THEN OnStorageError(rows, t, TRUE, fault)
              ELSE IF i # 0
              THEN Reply("updated", <<company_data>>,
                         UpdateRow(rows, i, company_data, t + e),
                         t + e, TRUE, found)
              ELSE IF NameTaken(rows, company_data.name)
              THEN OnStorageError(rows, t, TRUE, "unique")
              ELSE Reply("inserted", <<company_data>>,
                         InsertRow(rows, company_data, t + e, offset),
                         t + e, TRUE, found)

\* get_company_data when nothing else runs between its lookup and its
\* refresh.  db_up: the session can reach the table; drv: self.driver is set.
GetCompanyData(rows, t, offset, db_up, drv, company, setup_ok, e) ==
    LET rest(p) ==
            IF p.done THEN p.reply[1]
            ELSE RefreshCompany(rows, t, offset, drv, company, p.existing,
                                setup_ok, e, "none")
    IN  Once(LookupCompany(rows, t, db_up, drv, company), rest)

\* ------------------------------------------------------------ orchestrator
LogEntry(scraper, company, t, r) ==
    [scraper |-> scraper, company |-> company, at |-> t, outcome |-> r.outcome,
     existing |-> r.existing, result |-> r.result, raised |-> r.raised,
     failed_at |-> r.failed_at, session_open |-> r.session_open]

\* The sessions that the calls of a log left open.
OpenAfter(log) == Cardinality({k \in DOMAIN log : log[k].session_open})

\* The loop of _gather_market_data over `companies`, threading the table,
\* the clock, the agent's driver, the data gathered and the call log.
\* fails: driver set-ups that fail before one succeeds.
RECURSIVE GatherFrom(_, _, _, _, _, _)
GatherFrom(companies, st, offset, db_up, fails, e) ==
    IF companies = <<>> THEN st
    ELSE
      LET company == Head(companies)
          after(r) ==
              GatherFrom(Tail(companies),
                         [store |-> r.store, now |-> r.now, driver |-> r.driver,
                          market_data |-> st.market_data \o r.result,
                          log |-> Append(st.log, LogEntry("agent", company, st.now, r))],
                         offset, db_up,
                         IF r.outcome = "no_data" THEN fails - 1 ELSE fails, e)
      IN  Once(GetCompanyData(st.store, st.now, offset, db_up, st.driver,
                              company, fails = 0, e), after)

CompaniesOfWholeList(query) ==
    IF query.target_companies # <<>>
    THEN query.target_companies
    ELSE GetPopularCompanies(query.field)

\* The companies _gather_market_data asks for: the listed ones, else the
\* first five popular companies of the field.
CompaniesOf(query) ==
    IF query.target_companies # <<>>
    THEN query.target_companies
    ELSE Take(GetPopularCompanies(query.field), PopularLimit)

\* _gather_market_data
GatherMarketData(query, st, offset, db_up, fails, e) ==
    GatherFrom(CompaniesOf(query), st, offset, db_up, fails, e)

GetSkillRequirementsKnownOnly(query) ==
    LET roles == IF query.target_roles # <<>>
                 THEN query.target_roles
                 ELSE Take(GetCommonRoles(query.field), CommonRoleLimit)
        found == [i \in DOMAIN roles |-> GetRoleSkills(roles[i])]
    IN  SelectSeq(found, LAMBDA r : r.experience_required # "Varies")

\* _get_skill_requirements
GetSkillRequirements(query) ==
    LET roles == IF query.target_roles # <<>>
                 THEN query.target_roles
                 ELSE Take(GetCommonRoles(query.field), CommonRoleLimit)
    IN  [i \in DOMAIN roles |-> GetRoleSkills(roles[i])]

JsonOrNone(list) == IF list # <<>> THEN JsonDumps(list) ELSE <<>>

StoreQueryKeepingLatest(table, query, t, offset, db_up) ==
    IF ~db_up THEN table
    ELSE <<[field |-> query.field, specialization |-> query.specialization,
            experience_level |-> query.experience_level,
            target_companies |-> JsonOrNone(query.target_companies),
            target_roles |-> JsonOrNone(query.target_roles),
            skills |-> JsonOrNone(query.skills),
            location_preference |-> query.location_preference,
            query_text |-> query.query_text,
            created_at |-> UtcNow(t, offset)]>>

\* _store_query: the row added to career_queries; when the table cannot be
\* reached the error is logged and nothing is stored.
StoreQuery(table, query, t, offset, db_up) ==
    IF ~db_up THEN table
    ELSE Append(table,
                [field |-> query.field, specialization |-> query.specialization,
                 experience_level |-> query.experience_level,
                 target_companies |-> JsonOrNone(query.target_companies),
                 target_roles |-> JsonOrNone(query.target_roles),
                 skills |-> JsonOrNone(query.skills),
                 location_preference |-> query.location_preference,
                 query_text |-> query.query_text,
                 created_at |-> UtcNow(t, offset)])

\* The sessions _store_query leaves open: db.close() (line 90) is the last
\* statement of the try body and the except clause has none.
StoreQueryOpen(db_up) == IF db_up THEN 0 ELSE 1

StoreQueryRaisesUnhandled(db_up) == ~db_up

\* Whether _store_query lets an error out to process_query: its except
\* (lines 91-92) logs the error and returns.
StoreQueryRaises(db_up) == FALSE

\* What POST /api/career-guidance answers when process_query re-raises
\* (career_agent.py:67-69, app.py:104-105): HTTP 500 and no CareerResponse.
ErrorResponse(query, t) ==
    [status |-> 500, query |-> query,
     roadmap |-> [field |-> "", specialization |-> "", total_duration |-> "",
                  steps |-> <<>>, skills_covered |-> <<>>],
     market_data |-> <<>>, market_trends |-> <<>>, layoff_statistics |-> <<>>,
     skill_requirements |-> <<>>, recommendations |-> <<>>, generated_at |-> t]

\* Queries handled by process_query.
HandleQueries ==
    {MakeQuery("mba", "marketing consultant", "fresh_graduate",
               <<"ZS Associates">>, <<>>, NoneStr),
     MakeQuery("tech", NoneStr, "entry_level", <<>>, <<>>, "Pune"),
     MakeQuery("mba", "Strategy Consulting", "mid_level",
               <<"McKinsey", "Tesla">>, <<"Data Scientist">>, NoneStr),
     MakeQuery("mba", "finance", "senior_level", <<>>,
               <<"unknown_role_xyz", "consultant">>, "Pune"),
     MakeQuery("tech", "Backend", "fresh_graduate", <<"google">>, <<>>, "")}

\* Company names asked of GET /api/market-data/{company}.
EndpointCompanies == {"Google", "google", "McKinsey", "Tesla"}

\* Steps by which the clock is moved between requests: one tick, the
\* staleness window, and one tick less than the window.
ClockSteps == {1, StaleDays * TicksPerDay - 1, StaleDays * TicksPerDay}

\* Ticks that may pass between the two clock reads of one refresh.
WriteDelays == {0, 1}

\* datetime.now() - datetime.utcnow() of the host, in ticks.
UtcOffsets == {-1, 0, 1}

\* ------------------------------------------------------------ the actions
Scrapers == {"agent", "endpoint"}

IdleGen == gen_in = <<>> /\ gen_out = <<>>
IdleRoadmap == rm_in = <<>> /\ rm_out = <<>>
IdleSkills == sk_in = <<>> /\ sk_out = <<>>
IdleGap == gap_in = <<>> /\ gap_out = <<>>
IdleSystem ==
    /\ store = <<>>
    /\ queries = <<>>
    /\ db_ok = TRUE
    /\ now = 0
    /\ utc_offset = 0
    /\ driver = [s \in Scrapers |-> FALSE]
    /\ calls = <<>>
    /\ response = <<>>
    /\ steps = 0
    /\ pending = <<>>
    /\ tables = EmptyTables
    /\ replies = <<>>
    /\ sessions = 0

\* CareerGuidanceAgent._generate_recommendations called on gen_in.
GenerateCall ==
    /\ gen_in # <<>>
    /\ gen_out = <<>>
    /\ LET a == gen_in[1]
       IN  gen_out' =
             <<[recommendations |->
                    GenerateRecommendations(a.query, a.market_data, a.market_trends),
                raised |->
                    GenerationRaises(a.query, a.market_data, a.market_trends)]>>
    /\ UNCHANGED <<sessions, extra, gen_in, rm_in, rm_out, store, queries, db_ok, now,
                   utc_offset, driver, calls, response, steps>>

InitGen ==
    /\ gen_in \in {<<a>> : a \in GenInputs}
    /\ gen_out = <<>>
    /\ IdleRoadmap
    /\ IdleSkills
    /\ IdleGap
    /\ IdleSystem

SpecGen == InitGen /\ [][GenerateCall]_vars

\* RoadmapGenerator.generate_roadmap called on rm_in
\* (GET /api/roadmap/{field}?specialization=).
RoadmapCall ==
    /\ rm_in # <<>>
    /\ rm_out = <<>>
    /\ rm_out' = <<GenerateRoadmap(rm_in[1].field, rm_in[1].specialization)>>
    /\ UNCHANGED <<sessions, extra, gen_in, gen_out, rm_in, store, queries, db_ok, now,
                   utc_offset, driver, calls, response, steps>>

InitRoadmap ==
    /\ rm_in \in {<<a>> : a \in RoadmapInputs}
    /\ rm_out = <<>>
    /\ IdleGen
    /\ IdleSkills
    /\ IdleGap
    /\ IdleSystem

SpecRoadmap == InitRoadmap /\ [][RoadmapCall]_vars

\* The service after start-up: app.py creates the tables only, run.py also
\* inserts the sample rows.
InitSystem ==
    /\ IdleGen
    /\ IdleRoadmap
    /\ IdleSkills
    /\ IdleGap
    /\ utc_offset \in UtcOffsets
    /\ db_ok \in BOOLEAN
    /\ \E seeded \in BOOLEAN :
          /\ store = IF seeded THEN SampleData(utc_offset) ELSE <<>>
          /\ tables = IF seeded THEN SampleTables(utc_offset) ELSE EmptyTables
    /\ queries = <<>>
    /\ now = 0
    /\ driver = [s \in Scrapers |-> FALSE]
    /\ calls = <<>>
    /\ response = <<>>
    /\ steps = 0
    /\ pending = <<>>
    /\ replies = <<>>
    /\ sessions = 0

\* Time passes between requests.
AdvanceClock(d) ==
    /\ now' = now + d
    /\ steps' = steps + 1
    /\ UNCHANGED <<sessions, extra, gen_in, gen_out, rm_in, rm_out, store, queries, db_ok,
                   utc_offset, driver, calls, response>>

\* GET /api/market-data/{company}: job_scraper.get_company_data(company).
GetMarketData(company, setup_ok, e) ==
    \E r \in {GetCompanyData(store, now, utc_offset, db_ok, driver["endpoint"],
                            company, setup_ok, e)} :
        /\ store' = r.store
        /\ now' = r.now
        /\ driver' = [driver EXCEPT !["endpoint"] = r.driver]
        /\ calls' = Append(calls, LogEntry("endpoint", company, now, r))
        /\ sessions' = sessions + (IF r.session_open THEN 1 ELSE 0)
        /\ steps' = steps + 1
        /\ UNCHANGED <<extra, gen_in, gen_out, rm_in, rm_out, queries, db_ok,
                       utc_offset, response>>

StoreRequest ==
    /\ steps < MaxStoreSteps
    /\ \E company \in EndpointCompanies, setup_ok \in BOOLEAN, e \in WriteDelays :
          GetMarketData(company, setup_ok, e)

StoreTick ==
    /\ steps < MaxStoreSteps
    /\ \E d \in ClockSteps : AdvanceClock(d)

SpecStore == InitSystem /\ [][StoreRequest \/ StoreTick]_vars

CareerResponseAdviceFirst(query, market_data, t) ==
    [status |-> 200, query |-> query,
     roadmap |-> GenerateRoadmap(query.field, query.specialization),
     market_data |-> market_data,
     market_trends |-> ScrapeMarketTrends,
     layoff_statistics |-> GetLayoffStatistics,
     skill_requirements |-> GetSkillRequirements(query),
     recommendations |-> GenerateRecommendations(query, <<>>, <<>>),
     generated_at |-> t]

\* Lines 36-67 once the company data is gathered: the remaining steps in
\* their order and the CareerResponse built from their results; the
\* recommendations are computed last, from the gathered data and the trends.
CareerResponse(query, market_data, t) ==
    LET roadmap == GenerateRoadmap(query.field, query.specialization)
        market_trends == ScrapeMarketTrends
        layoff_stats == GetLayoffStatistics
        skill_requirements == GetSkillRequirements(query)
        recommendations == GenerateRecommendations(query, market_data, market_trends)
    IN  [status |-> 200, query |-> query, roadmap |-> roadmap,
         market_data |-> market_data, market_trends |-> market_trends,
         layoff_statistics |-> layoff_stats,
         skill_requirements |-> skill_requirements,
         recommendations |-> recommendations, generated_at |-> t]

\* POST /api/career-guidance: career_agent.process_query(query), the whole
\* handler: persist, roadmap, market data, trends, layoffs, skills,
\* recommendations, response.  persist_ok, lookup_ok: the write of the query
\* and the company lookups of this request do not fail in the database.
ProcessQuery(query, fails, e, persist_ok, lookup_ok) ==
    IF StoreQueryRaises(db_ok /\ persist_ok)
    THEN /\ response' = <<ErrorResponse(query, now)>>
         /\ calls' = <<>>
         /\ sessions' = sessions + StoreQueryOpen(db_ok /\ persist_ok)
         /\ steps' = steps + 1
         /\ UNCHANGED <<extra, gen_in, gen_out, rm_in, rm_out, store, queries,
                        db_ok, now, utc_offset, driver>>
    ELSE
      \E gathered \in {GatherMarketData(query,
                          [store |-> store, now |-> now, driver |-> driver["agent"],
                           market_data |-> <<>>, log |-> <<>>],
                          utc_offset, db_ok /\ lookup_ok, fails, e)} :
          /\ queries' = StoreQuery(queries, query, now, utc_offset,
                                   db_ok /\ persist_ok)
          /\ store' = gathered.store
          /\ now' = gathered.now
          /\ driver' = [driver EXCEPT !["agent"] = gathered.driver]
          /\ calls' = gathered.log
          /\ sessions' = sessions + StoreQueryOpen(db_ok /\ persist_ok)
                                  + OpenAfter(gathered.log)
          /\ response' =
               <<CareerResponse(query, gathered.market_data, gathered.now)>>
          /\ steps' = steps + 1
          /\ UNCHANGED <<extra, gen_in, gen_out, rm_in, rm_out, db_ok, utc_offset>>

HandleRequest ==
    /\ steps < MaxHandleSteps
    /\ \E query \in HandleQueries, e \in WriteDelays :
          \E fails \in IF driver["agent"] THEN {0} ELSE 0..Len(CompaniesOf(query)) :
              ProcessQuery(query, fails, e, TRUE, TRUE)

HandleTick ==
    /\ steps < MaxHandleSteps
    /\ \E d \in ClockSteps : AdvanceClock(d)

Init == InitSystem

Next == HandleRequest \/ HandleTick

Spec == Init /\ [][Next]_vars

\* ------------------------------------------------------- skill resolution
\* Role texts asked of GET /api/skills/{role}: spellings of one catalog key,
\* texts that contain a key or are contained in one, texts that match two
\* keys, the empty text and an unknown role.
SkillRoles ==
    {"Data Scientist", "data_scientist", "DATA-SCIENTIST", "unknown_role_xyz",
     "consultant", "marketing consultant", "Marketing Consultant",
     "Senior Software Engineer", "data", "engineer", "product manager",
     "Product-Manager", "marketing_manager", ""}

\* job_scraper.get_role_skills called for the next role of sk_in.
SkillCall ==
    /\ Len(sk_out) < Len(sk_in)
    /\ sk_out' = Append(sk_out, GetRoleSkills(sk_in[Len(sk_out) + 1]))
    /\ UNCHANGED <<sessions, gen_in, gen_out, rm_in, rm_out, store, queries, db_ok, now,
                   utc_offset, driver, calls, response, steps,
                   gap_in, gap_out, sk_in, pending, tables, replies>>

\* Two roles are resolved one after the other.
InitSkills ==
    /\ sk_in \in [1..2 -> SkillRoles]
    /\ sk_out = <<>>
    /\ IdleGap
    /\ IdleGen
    /\ IdleRoadmap
    /\ IdleSystem

SpecSkills == InitSkills /\ [][SkillCall]_vars

\* ------------------------------------------- get_company_data, overlapping
\* Requests to GET /api/market-data/{company} are coroutines on one
\* JobMarketScraper; the await of line 232 is the one place where a call
\* can be suspended while others run.  A call that comes back from its
\* lookup without being done waits in pending with the row it found.
CallCompanies == {"Tesla", "Google", "google"}

\* The steps after the lookup at which the database may raise.
RefreshFaults == {"none", "upsert", "commit"}

\* The call starts: session, lookup, freshness test.  lookup_ok: the lookup
\* does not raise.
CallBegin(company, lookup_ok) ==
    \E p \in {LookupCompany(store, now, db_ok /\ lookup_ok, driver["endpoint"],
                            company)} :
        /\ IF p.done
           THEN /\ calls' = Append(calls, LogEntry("endpoint", company, now,
                                                   p.reply[1]))
                /\ sessions' = sessions + (IF p.reply[1].session_open THEN 1 ELSE 0)
                /\ UNCHANGED pending
           ELSE /\ pending' = Append(pending, [company |-> company, at |-> now,
                                               existing |-> p.existing])
                /\ sessions' = sessions + 1
                /\ UNCHANGED calls
        /\ steps' = steps + 1
        /\ UNCHANGED <<gen_in, gen_out, rm_in, rm_out, store, queries, db_ok, now,
                       utc_offset, driver, response, gap_in, gap_out, sk_in, sk_out, tables,
                       replies>>

\* The k-th suspended call goes on after its await: scrape, upsert, commit.
CallResume(k, setup_ok, e, fault) ==
    \E r \in {RefreshCompany(store, now, utc_offset, driver["endpoint"],
                             pending[k].company, pending[k].existing,
                             setup_ok, e, fault)} :
        /\ store' = r.store
        /\ now' = r.now
        /\ driver' = [driver EXCEPT !["endpoint"] = r.driver]
        /\ calls' = Append(calls, LogEntry("endpoint", pending[k].company,
                                           pending[k].at, r))
        /\ pending' = SubSeq(pending, 1, k - 1) \o SubSeq(pending, k + 1, Len(pending))
        /\ sessions' = IF r.session_open THEN sessions ELSE sessions - 1
        /\ UNCHANGED <<gen_in, gen_out, rm_in, rm_out, queries, db_ok,
                       utc_offset, response, steps, gap_in, gap_out, sk_in, sk_out, tables,
                       replies>>

CallsBegin ==
    /\ steps < MaxCallSteps
    /\ Len(pending) < MaxPending
    /\ \E company \in CallCompanies, lookup_ok \in BOOLEAN :
          CallBegin(company, lookup_ok)

CallsResume ==
    \E k \in DOMAIN pending, setup_ok \in BOOLEAN, e \in WriteDelays,
       fault \in RefreshFaults :
          CallResume(k, setup_ok, e, fault)

\* The sample rows grow stale: the clock moves by the staleness window.
CallsTick ==
    /\ steps < MaxCallSteps
    /\ now = 0
    /\ pending = <<>>
    /\ AdvanceClock(StaleDays * TicksPerDay)

SpecCalls == InitSystem /\ [][CallsBegin \/ CallsResume \/ CallsTick]_vars

\* ------------------------------------------ process_query, steps failing
\* Which steps of one request may fail in the database while it is up.
StepFaults == IF db_ok THEN BOOLEAN ELSE {FALSE}

\* POST /api/career-guidance while the write of the query, the company
\* look-ups or the driver set-ups of the request may fail.
HandleFaulty ==
    /\ steps < MaxFaultySteps
    /\ \E query \in HandleQueries, e \in WriteDelays,
          persist_ok \in StepFaults, lookup_ok \in StepFaults :
          \E fails \in IF driver["agent"] THEN {0} ELSE 0..Len(CompaniesOf(query)) :
              ProcessQuery(query, fails, e, persist_ok, lookup_ok)

\* The sample rows grow stale before the first request.
HandleFaultyTick ==
    /\ now = 0
    /\ steps = 0
    /\ now' = StaleDays * TicksPerDay
    /\ UNCHANGED <<sessions, extra, gen_in, gen_out, rm_in, rm_out, store, queries, db_ok,
                   utc_offset, driver, calls, response, steps>>

SpecHandle == InitSystem /\ [][HandleFaulty \/ HandleFaultyTick]_vars

\* ------------------------------------------------- the service, all routes
\* What a read-only route answered: the route, its argument, the answer and
\* the number of writing requests served before it.
ReplyEntry(kind, arg, result) ==
    [kind |-> kind, arg |-> arg, result |-> result, after |-> steps]

TablesAfterRoadmapAudited(tabs, roadmap) ==
    [tabs EXCEPT !.roadmaps = Append(@, roadmap)]

\* generate_roadmap opens no session: RoadmapDB and the other schema-only
\* tables are as they were.
TablesAfterRoadmap(tabs, roadmap) == tabs

ServiceRoles == {"Data Scientist", "unknown_role_xyz"}
ServiceRoadmaps ==
    {[field |-> "mba", specialization |-> "Marketing"],
     [field |-> "tech", specialization |-> NoneStr]}
ServiceCompanies == {"Tesla", "google"}
ServiceQueries ==
    {MakeQuery("mba", "marketing consultant", "fresh_graduate",
               <<"ZS Associates">>, <<>>, NoneStr),
     MakeQuery("tech", "Backend", "fresh_graduate", <<"google">>, <<>>, "")}

\* GET /api/skills/{role}
ServiceSkills(role) ==
    /\ replies' = Append(replies, ReplyEntry("skills", role, GetRoleSkills(role)))
    /\ UNCHANGED <<sessions, gen_in, gen_out, rm_in, rm_out, store, queries, db_ok, now,
                   utc_offset, driver, calls, response, steps,
                   gap_in, gap_out, sk_in, sk_out, pending, tables>>

\* GET /api/roadmap/{field}?specialization=
ServiceRoadmap(a) ==
    \E roadmap \in {GenerateRoadmap(a.field, a.specialization)} :
        /\ replies' = Append(replies, ReplyEntry("roadmap", a, roadmap))
        /\ tables' = TablesAfterRoadmap(tables, roadmap)
        /\ UNCHANGED <<sessions, gen_in, gen_out, rm_in, rm_out, store, queries, db_ok, now,
                       utc_offset, driver, calls, response, steps,
                       gap_in, gap_out, sk_in, sk_out, pending>>

\* GET /api/layoff-stats
ServiceLayoffs ==
    /\ replies' = Append(replies, ReplyEntry("layoffs", "", GetLayoffStatistics))
    /\ UNCHANGED <<sessions, gen_in, gen_out, rm_in, rm_out, store, queries, db_ok, now,
                   utc_offset, driver, calls, response, steps,
                   gap_in, gap_out, sk_in, sk_out, pending, tables>>

\* career_agent.get_career_insights(field): trends and layoffs fetched.
ServiceInsights(field) ==
    /\ replies' = Append(replies,
                         ReplyEntry("insights", field,
                                    [market_trends |-> ScrapeMarketTrends,
                                     layoff_statistics |-> GetLayoffStatistics,
                                     popular_companies |-> GetPopularCompanies(field),
                                     common_roles |-> GetCommonRoles(field)]))
    /\ UNCHANGED <<sessions, gen_in, gen_out, rm_in, rm_out, store, queries, db_ok, now,
                   utc_offset, driver, calls, response, steps,
                   gap_in, gap_out, sk_in, sk_out, pending, tables>>

ServiceRead ==
    /\ Len(replies) < MaxServiceReads
    /\ \/ \E role \in ServiceRoles : ServiceSkills(role)
       \/ \E a \in ServiceRoadmaps : ServiceRoadmap(a)
       \/ ServiceLayoffs
       \/ ServiceInsights("tech")

\* The routes that write: GET /api/market-data/{company} and
\* POST /api/career-guidance.
ServiceWrite ==
    /\ steps < MaxServiceWrites
    /\ \/ \E company \in ServiceCompanies, setup_ok \in BOOLEAN :
             GetMarketData(company, setup_ok, 0)
       \/ \E query \in ServiceQueries : ProcessQuery(query, 0, 0, TRUE, TRUE)

\* The service on a host in UTC with its database up.
InitService ==
    /\ InitSystem
    /\ utc_offset = 0
    /\ db_ok

SpecService == InitService /\ [][ServiceRead \/ ServiceWrite]_vars

\* ------------------------------------------------- one request, any query
\* Queries posted to /api/career-guidance: both fields, specializations with
\* and without the words the generator looks for, every experience level,
\* target companies given or left to the popular list, any location.
AdviceSpecializations ==
    {NoneStr, "marketing", "Marketing Consultant", "marketing consultant",
     "Strategy Consulting", "finance"}

AdviceCompanies == {<<>>, <<"ZS Associates">>, <<"Tesla">>}

AdviceQueries ==
    {MakeQuery(f, s, l, c, <<>>, loc) :
        f \in FieldTypes, s \in AdviceSpecializations, l \in ExperienceLevels,
        c \in AdviceCompanies, loc \in GenLocations}

\* The first request after start-up.
AdviceRequest ==
    /\ response = <<>>
    /\ \E query \in AdviceQueries, e \in WriteDelays :
          \E fails \in IF driver["agent"] THEN {0} ELSE 0..Len(CompaniesOf(query)) :
              ProcessQuery(query, fails, e, TRUE, TRUE)

\* The sample rows grow stale before the request.
AdviceTick ==
    /\ response = <<>>
    /\ now = 0
    /\ AdvanceClock(StaleDays * TicksPerDay)

SpecAdvice == InitSystem /\ [][AdviceRequest \/ AdviceTick]_vars

\* --------------------------------------------------------- skills-gap analysis
\* [skill.lower() for skill in skills]
LowerAll(skills) == [i \in DOMAIN skills |-> Lower(Chars(skills[i]))]

\* x in list
InList(x, list) == \E i \in DOMAIN list : list[i] = x

\* len(skills_you_have) / len(essential_skills) * 100, kept as the exact
\* fraction num / den.
GapScore(have, essential) == [num |-> 100 * Len(have), den |-> Len(essential)]

\* f"...{', '.join(skills[:3])}": the line is kept as the skills it names.
GapAdvice(kind, skills) == [about |-> kind, names |-> Take(skills, 3)]

\* analyze_skills_gap: get_role_skills always returns a record, whose
\* essential list is never empty, so neither the error return of line 301
\* nor the except clause is taken for a list of texts.
AnalyzeSkillsGap(current_skills, target_role) ==
    LET role_skills == GetRoleSkills(target_role)
        current_skills_lower == LowerAll(current_skills)
        essential_skills_lower == LowerAll(role_skills.essential_skills)
        nice_to_have_lower == LowerAll(role_skills.nice_to_have_skills)
        missing_essential ==
            SelectSeq(role_skills.essential_skills,
                      LAMBDA skill : ~InList(Lower(Chars(skill)), current_skills_lower))
        missing_nice_to_have ==
            SelectSeq(role_skills.nice_to_have_skills,
                      LAMBDA skill : ~InList(Lower(Chars(skill)), current_skills_lower))
        skills_you_have ==
            SelectSeq(current_skills,
                      LAMBDA skill : \/ InList(Lower(Chars(skill)), essential_skills_lower)
                                     \/ InList(Lower(Chars(skill)), nice_to_have_lower))
    IN  [target_role |-> target_role,
         skills_you_have |-> skills_you_have,
         missing_essential_skills |-> missing_essential,
         missing_nice_to_have_skills |-> missing_nice_to_have,
         skills_gap_score |-> GapScore(skills_you_have, role_skills.essential_skills),
         recommendations |->
             <<GapAdvice("learn", missing_essential),
               GapAdvice("add", missing_nice_to_have),
               GapAdvice("leverage", skills_you_have)>>]

\* Current skills: spellings of essential and nice-to-have skills of the
\* roles below in several letter cases, and one skill no role lists.
CurrentSkillPool ==
    {"Python", "python", "Deep Learning", "Teamwork", "TEAMWORK", "Leadership",
     "Cooking"}

GapRoles == {"Data Scientist", "unknown_role_xyz", "consultant"}

GapInputs ==
    [current_skills : SeqsUpTo(CurrentSkillPool, MaxCurrentSkills),
     target_role : GapRoles]

GapCall ==
    /\ gap_out = <<>>
    /\ gap_out' = <<AnalyzeSkillsGap(gap_in[1].current_skills, gap_in[1].target_role)>>
    /\ UNCHANGED <<sessions, gen_in, gen_out, rm_in, rm_out, store, queries, db_ok, now,
                   utc_offset, driver, calls, response, steps, sk_in, sk_out,
                   pending, tables, replies, gap_in>>

InitGap ==
    /\ gap_in \in {<<a>> : a \in GapInputs}
    /\ gap_out = <<>>
    /\ IdleGen
    /\ IdleRoadmap
    /\ IdleSkills
    /\ IdleSystem

SpecGap == InitGap /\ [][GapCall]_vars

\* ================================================================ claims
HighCount(market_trends) ==
    Cardinality({i \in DOMAIN market_trends : market_trends[i].impact = "High"})

\* C1: the generator returns at most 10 lines; given 10 or more High-impact
\* trends it returns exactly 10 lines and all of them are trend lines.
C1_CappedAtTen ==
    gen_out # <<>> =>
        LET recs == gen_out[1].recommendations
        IN  /\ Len(recs) <= RecCap
            /\ HighCount(gen_in[1].market_trends) >= RecCap =>
                  /\ Len(recs) = RecCap
                  /\ \A i \in DOMAIN recs : recs[i].block = "trend"

\* Eleven High-impact trends and a company list: the cap cuts trend lines.
C1_Witness ==
    /\ gen_out # <<>>
    /\ HighCount(gen_in[1].market_trends) > RecCap
    /\ gen_in[1].market_data # <<>>
    /\ Len(gen_out[1].recommendations) = RecCap

BlockRank(block) ==
    CASE block = "trend" -> 1
      [] block = "salary" -> 2
      [] block = "hiring" -> 3
      [] block = "field" -> 4
      [] block = "experience" -> 5
      [] block = "location" -> 6
      [] block = "fallback" -> 7

\* C2: without an error the result is the first min(10, n) lines of the six
\* blocks in the order trend, salary, hiring, field, experience, location;
\* no line of a later block precedes a line of an earlier block.
C2_FixedOrderPrefix ==
    (gen_out # <<>> /\ ~gen_out[1].raised) =>
        LET a == gen_in[1]
            recs == gen_out[1].recommendations
            all == TrendBlock(a.market_trends) \o CompanyBlock(a.market_data)
                     \o FieldBlock(a.query) \o ExperienceBlock(a.query)
                     \o LocationBlock(a.query)
        IN  /\ Len(recs) = Min(RecCap, Len(all))
            /\ \A i \in DOMAIN recs : recs[i] = all[i]
            /\ \A i, j \in DOMAIN recs :
                  i < j => BlockRank(recs[i].block) <= BlockRank(recs[j].block)

\* A full list that starts with a trend line, holds both company lines and
\* ends inside the experience block, the location line being cut off.
C2_Witness ==
    /\ gen_out # <<>>
    /\ ~gen_out[1].raised
    /\ LET recs == gen_out[1].recommendations
       IN  /\ Len(recs) = RecCap
           /\ recs[1].block = "trend"
           /\ \E i \in DOMAIN recs : recs[i].block = "salary"
           /\ \E i \in DOMAIN recs : recs[i].block = "hiring"
           /\ recs[RecCap].block = "experience"
    /\ Truthy(gen_in[1].query.location_preference)

\* C3 as stated: after an internal error the result is the fallback line
\* alone.
C3_Original_FallbackAlone ==
    (gen_out # <<>> /\ gen_out[1].raised) =>
        gen_out[1].recommendations = <<FallbackLine>>

\* C3 amended: after an internal error the lines computed before it (the
\* High-impact trend lines) are kept, the fallback line is appended to them
\* and the first 10 lines of that are returned.
C3_FallbackAppended ==
    (gen_out # <<>> /\ gen_out[1].raised) =>
        LET recs == gen_out[1].recommendations
            before == TrendBlock(gen_in[1].market_trends)
        IN  /\ recs = Take(Append(before, FallbackLine), RecCap)
            /\ \A i \in DOMAIN recs : recs[i].block \in {"trend", "fallback"}
            /\ Len(before) < RecCap => recs[Len(recs)] = FallbackLine

\* An error after at least one trend line was appended.
C3_Witness ==
    /\ gen_out # <<>>
    /\ gen_out[1].raised
    /\ Len(gen_out[1].recommendations) > 1
    /\ gen_out[1].recommendations[1].block = "trend"

MarketingSpellings == {"marketing", "Marketing", "MARKETING"}

StepTitles(roadmap) == [i \in DOMAIN roadmap.steps |-> roadmap.steps[i].title]

\* C6: for field mba and specialization "marketing" in any letter case the
\* override roadmap is returned: 6 steps, the first title containing "Oct"
\* and "Refine Focus", and never the content of an mba catalog entry.
C6_MarketingOverride ==
    (/\ rm_out # <<>>
     /\ Lower(Chars(rm_in[1].field)) = Chars("mba")
     /\ rm_in[1].specialization \in MarketingSpellings) =>
        LET r == rm_out[1]
        IN  /\ Len(r.steps) = 6
            /\ Contains(r.steps[1].title, Chars("Oct"))
            /\ Contains(r.steps[1].title, Chars("Refine Focus"))
            /\ r.total_duration = "8 months (Oct-Jun)"
            /\ \A i \in DOMAIN MbaKeys :
                  /\ r.steps # MbaRoadmaps(MbaKeys[i]).steps
                  /\ r.total_duration # MbaRoadmaps(MbaKeys[i]).total_duration

\* The override returned for an upper-case spelling.
C6_Witness ==
    /\ rm_out # <<>>
    /\ rm_in[1].field = "mba"
    /\ rm_in[1].specialization = "MARKETING"
    /\ Len(rm_out[1].steps) = 6

\* C7 as stated: for tech or mba and a specialization that is absent or not
\* a catalog key, the roadmap's specialization label and steps are those of
\* the field's default (frontend for tech, consulting for mba).
C7_Original_DefaultSpecialization ==
    rm_out # <<>> =>
        LET f == rm_in[1].field
            s == rm_in[1].specialization
            r == rm_out[1]
        IN  /\ (f = "tech" /\ (s = NoneStr \/ ~HasKey(TechKeys, s))) =>
                  /\ r.specialization = "frontend"
                  /\ r.steps = TechRoadmaps("frontend").steps
            /\ (f = "mba" /\ s \notin MarketingSpellings
                  /\ (s = NoneStr \/ ~HasKey(MbaKeys, s))) =>
                  /\ r.specialization = "consulting"
                  /\ r.steps = MbaRoadmaps("consulting").steps

DefaultTitles ==
    <<Chars("Foundation Learning"), Chars("Skill Development"),
      Chars("Portfolio Building"), Chars("Job Search & Networking")>>

\* C8: for a field that is neither tech nor mba (compared in lower case, as
\* the code does) the call returns the generic 4-step roadmap (foundation,
\* skill development, portfolio, job search) with the field that was passed.
C8_UnsupportedFieldFallback ==
    (/\ rm_out # <<>>
     /\ Lower(Chars(rm_in[1].field)) \notin {Chars("tech"), Chars("mba")}) =>
        /\ rm_out[1].field = rm_in[1].field
        /\ Len(rm_out[1].steps) = 4
        /\ StepTitles(rm_out[1]) = DefaultTitles

\* generate_roadmap("quantum", None)
C8_Witness ==
    /\ rm_out # <<>>
    /\ rm_in[1].field = "quantum"
    /\ rm_in[1].specialization = NoneStr
    /\ rm_out[1].field = "quantum"

IsC4Query(query) ==
    /\ query.field = "mba"
    /\ query.specialization = "marketing consultant"
    /\ query.experience_level = "fresh_graduate"
    /\ query.target_companies = <<"ZS Associates">>

\* C4 as stated: the response to the mba / "marketing consultant" /
\* fresh_graduate / ["ZS Associates"] query has at most 10 recommendations,
\* among them a marketing-specific line and a fresh-graduate line.
C4_Original_MarketingAndFreshGraduate ==
    (response # <<>> /\ IsC4Query(response[1].query)) =>
        LET recs == response[1].recommendations
        IN  /\ Len(recs) <= RecCap
            /\ \E i \in DOMAIN recs :
                  recs[i].block = "field" /\ recs[i].text[1] = "marketing"
            /\ \E i \in DOMAIN recs :
                  recs[i].block = "experience" /\ recs[i].text[1] = "fresh_graduate"

\* C4 amended: that response has at most 10 recommendations, among them a
\* marketing-specific line and none of the fresh-graduate lines: the two
\* High-impact trend lines, the company lines and the marketing block
\* reach the cap before the experience-level block.
C4_MarketingWithoutFreshGraduate ==
    (response # <<>> /\ IsC4Query(response[1].query)) =>
        LET recs == response[1].recommendations
        IN  /\ Len(recs) <= RecCap
            /\ \E i \in DOMAIN recs :
                  recs[i].block = "field" /\ recs[i].text[1] = "marketing"
            /\ \A i \in DOMAIN recs : recs[i].block # "experience"

\* The C4 query answered with the ZS Associates snapshot and a full list.
C4_Witness ==
    /\ response # <<>>
    /\ IsC4Query(response[1].query)
    /\ Len(response[1].market_data) = 1
    /\ response[1].market_data[1].name = "ZS Associates"
    /\ Len(response[1].recommendations) = RecCap
    /\ response[1].recommendations[RecCap].block = "field"

\* C5 as stated: the response to an mba query with specialization
\* "marketing consultant" carries the marketing override roadmap (6 phases,
\* 8 months), not content of the generic mba catalog.
C5_Original_OverrideInResponse ==
    (/\ response # <<>>
     /\ response[1].query.field = "mba"
     /\ response[1].query.specialization = "marketing consultant") =>
        /\ response[1].roadmap.steps = GetRoadmapAsModel.steps
        /\ response[1].roadmap.total_duration = GetRoadmapAsModel.total_duration

\* C9 as stated: of two successive get_company_data calls for one name made
\* less than 7 days apart the second returns the last_updated the first
\* returned, whether or not the name was stored before; and a call that
\* finds the stored timestamp aged 7 days or more returns a different one.
C9_Original_SameTimestampWithinWindow ==
    /\ \A k \in 1..(Len(calls) - 1) :
          (/\ calls[k].company = calls[k + 1].company
           /\ calls[k + 1].at - calls[k].at < StaleDays * TicksPerDay
           /\ calls[k].result # <<>>
           /\ calls[k + 1].result # <<>>) =>
              calls[k + 1].result[1].last_updated = calls[k].result[1].last_updated
    /\ \A k \in DOMAIN calls :
          (/\ calls[k].existing # <<>>
           /\ calls[k].at - calls[k].existing[1].last_updated >= StaleDays * TicksPerDay
           /\ calls[k].result # <<>>) =>
              calls[k].result[1].last_updated # calls[k].existing[1].last_updated

\* C10 as stated: a get_company_data(n) that produces a fresh snapshot
\* updates in place the row named exactly n if there is one, inserts a row
\* named n otherwise, and changes no row whose name differs from n.
C10_Original_UpsertByExactName ==
    [][(/\ Len(calls') = Len(calls) + 1
        /\ calls'[Len(calls')].outcome \in {"updated", "inserted"}) =>
          LET n == calls'[Len(calls')].company
              named == {i \in DOMAIN store : store[i].name = n}
          IN  /\ \A i \in DOMAIN store :
                    store[i].name # n => (i \in DOMAIN store' /\ store'[i] = store[i])
              /\ named # {} => Len(store') = Len(store)
              /\ named = {} =>
                    /\ Len(store') = Len(store) + 1
                    /\ store'[Len(store')].name = n]_vars

\* ---------------------------------------------------------------- C12, C13
\* Normalization as the catalog's contract words it: every letter in lower
\* case, every space and every hyphen replaced by the separator.
Normalized(role) ==
    LET cs == Chars(role)
    IN  [i \in DOMAIN cs |->
            IF cs[i] \in {" ", "-"} THEN "_" ELSE LowerChar(cs[i])]

\* C12: two roles that are equal after normalization resolve to the same
\* essential skills; "Data Scientist", "data_scientist" and "DATA-SCIENTIST"
\* all resolve to the essential skills of the data_scientist entry.
C12_NormalizedRolesAgree ==
    Len(sk_out) = 2 =>
        /\ Normalized(sk_in[1]) = Normalized(sk_in[2]) =>
              sk_out[1].essential_skills = sk_out[2].essential_skills
        /\ \A i \in 1..2 :
              sk_in[i] \in {"Data Scientist", "data_scientist", "DATA-SCIENTIST"} =>
                  sk_out[i].essential_skills =
                      SkillMapping("data_scientist").essential_skills

\* The hyphenated and the spaced spelling, both resolved.
C12_Witness ==
    /\ Len(sk_out) = 2
    /\ sk_in = <<"DATA-SCIENTIST", "Data Scientist">>
    /\ sk_out[1].essential_skills = sk_out[2].essential_skills
    /\ sk_out[1].role = "Data Scientist"

\* C13: every resolution returns a record: the entry whose key equals the
\* normalized role; else the entry of the first key, in catalog order, that
\* is contained in the normalized role or contains it; else the default
\* record (Communication, Problem Solving, Teamwork; no certifications).
C13_ResolutionOrder ==
    \A n \in DOMAIN sk_out :
        LET k == Normalized(sk_in[n])
            exact == {j \in DOMAIN SkillKeys : Chars(SkillKeys[j]) = k}
            partial == {j \in DOMAIN SkillKeys :
                           \/ Contains(k, Chars(SkillKeys[j]))
                           \/ Contains(Chars(SkillKeys[j]), k)}
        IN  IF exact # {}
            THEN \E j \in exact : sk_out[n] = SkillMapping(SkillKeys[j])
            ELSE IF partial # {}
            THEN \E j \in partial :
                    /\ \A i \in partial : j <= i
                    /\ sk_out[n] = SkillMapping(SkillKeys[j])
            ELSE /\ sk_out[n].essential_skills =
                        <<"Communication", "Problem Solving", "Teamwork">>
                 /\ sk_out[n].certifications = <<>>

\* A role contained in a key, and a role no key matches.
C13_Witness ==
    /\ Len(sk_out) = 2
    /\ sk_in = <<"data", "unknown_role_xyz">>
    /\ sk_out[1].role = "Data Scientist"
    /\ sk_out[2].role = "unknown_role_xyz"
    /\ sk_out[2].certifications = <<>>

\* ---------------------------------------------------------------- C11, C18
\* C11: a call of get_company_data in which the database raised, at the
\* lookup, at the upsert or at the commit, returned None, and no call ever
\* let an exception out to its caller.
C11_StorageErrorsSwallowed ==
    \A n \in DOMAIN calls :
        /\ ~calls[n].raised
        /\ calls[n].failed_at # "none" => calls[n].result = <<>>

\* Three calls that failed at the three steps, each answered None.
C11_Witness ==
    /\ \A step \in {"lookup", "upsert", "commit"} :
          \E n \in DOMAIN calls :
              calls[n].failed_at = step /\ calls[n].result = <<>>
    /\ db_ok

\* The values a refresh writes, and the values a sample row starts with.
RefreshedFields(row) ==
    <<row.hiring_status, row.open_positions, row.average_salary,
      row.required_skills>>

\* C18: whatever calls overlap, company_data holds at most one row per
\* name, and the refreshed fields of every row come from one source: all
\* from one refresh or all from the sample row of that name.
C18_OneWholeRowPerName ==
    /\ \A i, j \in DOMAIN store : store[i].name = store[j].name => i = j
    /\ \A i \in DOMAIN store :
          LET scraped == ScrapeGlassdoorCompanyData(store[i].name, 0)
              seeds == SampleData(utc_offset)
          IN  \/ RefreshedFields(store[i]) =
                   <<scraped.hiring_status, scraped.open_positions,
                     scraped.average_salary, JsonDumps(scraped.required_skills)>>
              \/ \E s \in DOMAIN seeds :
                   /\ seeds[s].name = store[i].name
                   /\ RefreshedFields(store[i]) = RefreshedFields(seeds[s])

\* Two calls for one absent company overlapped: both looked up before either
\* wrote, one inserted the row, the other's commit was refused.
C18_Witness ==
    \E m, n \in DOMAIN calls :
        /\ calls[m].company = "Tesla" /\ calls[n].company = "Tesla"
        /\ calls[m].outcome = "inserted"
        /\ calls[n].outcome = "error" /\ calls[n].failed_at = "unique"
        /\ calls[n].result = <<>>
        /\ Cardinality({i \in DOMAIN store : store[i].name = "Tesla"}) = 1

\* ---------------------------------------------------------- C15, C16, C17
\* The companies the calls of the last handled request were made for, in
\* call order.
CalledCompanies == [n \in DOMAIN calls |-> calls[n].company]

\* The snapshots those calls returned, in call order.
RECURSIVE FoundSnapshots(_)
FoundSnapshots(log) ==
    IF log = <<>> THEN <<>> ELSE Head(log).result \o FoundSnapshots(Tail(log))

\* C15: whatever failed while a query was handled (the persist, the company
\* look-ups), the request was answered with a Response whose roadmap,
\* trends, layoff statistics, skill requirements and recommendations are all
\* there; market_data alone is empty when every look-up failed.
C15_StepsBestEffort ==
    response # <<>> =>
        LET r == response[1]
        IN  /\ r.status = 200
            /\ r.roadmap.steps # <<>>
            /\ r.market_trends = ScrapeMarketTrends
            /\ r.layoff_statistics = GetLayoffStatistics
            /\ r.skill_requirements # <<>>
            /\ r.recommendations # <<>>
            /\ (\A n \in DOMAIN calls : calls[n].result = <<>>) =>
                  r.market_data = <<>>

\* The database is up, yet the persist and every look-up of the request
\* failed: nothing was stored and the Response is complete but for
\* market_data.
C15_Witness ==
    /\ response # <<>>
    /\ db_ok
    /\ queries = <<>>
    /\ calls # <<>>
    /\ \A n \in DOMAIN calls : calls[n].failed_at = "lookup"
    /\ response[1].market_data = <<>>
    /\ response[1].status = 200
    /\ Len(response[1].skill_requirements) = 2

\* C16: the calls of a handled request are one per listed company in listed
\* order when companies are listed, and otherwise one for each of the first
\* 5 popular companies of the field; market_data holds the snapshots found,
\* in call order, never more than companies were asked for.
C16_CompaniesGathered ==
    response # <<>> =>
        LET q == response[1].query
            popular == GetPopularCompanies(q.field)
        IN  /\ CalledCompanies =
                  IF q.target_companies # <<>> THEN q.target_companies
                  ELSE SubSeq(popular, 1, 5)
            /\ response[1].market_data = FoundSnapshots(calls)
            /\ Len(response[1].market_data) <= Len(CalledCompanies)
            /\ q.target_companies = <<>> => Len(response[1].market_data) <= 5

\* No company listed, field mba: the first five popular companies were
\* asked for and all five sample rows found.
C16_Witness ==
    /\ response # <<>>
    /\ response[1].query.target_companies = <<>>
    /\ response[1].query.field = "mba"
    /\ Len(calls) = 5
    /\ calls[4].company = "ZS Associates"
    /\ Len(response[1].market_data) = 5

\* C17: skill_requirements holds one record per listed role, in listed
\* order, when roles are listed, and otherwise the records of exactly the
\* first 3 common roles of the field.
C17_SkillsGathered ==
    response # <<>> =>
        LET q == response[1].query
            common == GetCommonRoles(q.field)
            roles == IF q.target_roles # <<>> THEN q.target_roles
                     ELSE SubSeq(common, 1, 3)
        IN  /\ Len(response[1].skill_requirements) = Len(roles)
            /\ \A i \in DOMAIN roles :
                  response[1].skill_requirements[i] = GetRoleSkills(roles[i])

\* Two roles listed, the first one unknown to the catalog.
C17_Witness ==
    /\ response # <<>>
    /\ response[1].query.target_roles = <<"unknown_role_xyz", "consultant">>
    /\ Len(response[1].skill_requirements) = 2
    /\ response[1].skill_requirements[1].experience_required = "Varies"
    /\ response[1].skill_requirements[2].role = "Management Consultant"

C19_OnlyQueriesAndCompaniesWritten ==
    [][/\ tables' = tables
       /\ replies' # replies =>
             LET x == replies'[Len(replies')]
             IN  /\ store' = store
                 /\ queries' = queries
                 /\ x.kind = "layoffs" => x.result = GetLayoffStatistics
                 /\ x.kind = "insights" =>
                       /\ x.result.market_trends = ScrapeMarketTrends
                       /\ x.result.layoff_statistics = GetLayoffStatistics]_vars

\* A handled query has written career_queries, trends and layoffs were
\* fetched after it, and the sample rows of market_trends are untouched.
C19_Witness ==
    /\ queries # <<>>
    /\ tables = SampleTables(utc_offset)
    /\ Len(tables.market_trends) = 2
    /\ Len(replies) = 2
    /\ replies[1].kind = "layoffs" /\ replies[1].after = 1
    /\ replies[2].kind = "insights" /\ replies[2].after = 1

\* --------------------------------------------------------------------- C20
\* The companies of a list that report an average salary (0 included).
Reporting(market_data) ==
    SelectSeq(market_data, LAMBDA c : c.average_salary # NoNumber)

\* C20 as stated, for lists of trends that leave room for the salary line
\* under the cap: when at least one supplied company reports an average
\* salary, the recommendations hold exactly one salary line, and its value
\* is the mean, to the nearest whole number, over exactly the reporting
\* companies.
C20_Original_MeanOverReporting ==
    gen_out # <<>> =>
        LET a == gen_in[1]
            recs == gen_out[1].recommendations
            rep == Reporting(a.market_data)
            sum == SumSeq([i \in DOMAIN rep |-> rep[i].average_salary[1]])
            lines == {i \in DOMAIN recs : recs[i].block = "salary"}
        IN  (rep # <<>> /\ HighCount(a.market_trends) < RecCap) =>
                /\ Cardinality(lines) = 1
                /\ \A i \in lines :
                      LET d == recs[i].text * Len(rep) - sum
                      IN  2 * d <= Len(rep) /\ -2 * d <= Len(rep)

\* ------------------------------------------------------ claims, third part
NoSalaryReported(market_data) ==
    market_data # <<>> /\ \A i \in DOMAIN market_data : ~HasSalary(market_data[i])

BlocksOf(recs) == {recs[i].block : i \in DOMAIN recs}

\* C21 as stated: for a non-empty company list in which no company reports an
\* average salary the result holds no salary line and is the capped list of
\* the trend lines, the hiring summary (if a company is Active), the field
\* block, the experience block and the location line.
C21_Original_NoSalaryKeepsLaterRules ==
    (gen_out # <<>> /\ NoSalaryReported(gen_in[1].market_data)) =>
        LET a == gen_in[1]
            recs == gen_out[1].recommendations
            active == SelectSeq(a.market_data, LAMBDA c : c.hiring_status = "Active")
            hiring == IF active # <<>>
                      THEN <<HiringLine(Len(active), Len(a.market_data))>>
                      ELSE <<>>
        IN  /\ "salary" \notin BlocksOf(recs)
            /\ recs = Take(TrendBlock(a.market_trends) \o hiring
                             \o FieldBlock(a.query) \o ExperienceBlock(a.query)
                             \o LocationBlock(a.query), RecCap)

Window == StaleDays * TicksPerDay

\* The fields of a CompanyData and the column each one is read from.
SameFields(snapshot, row) ==
    /\ snapshot.name = row.name
    /\ snapshot.hiring_status = row.hiring_status
    /\ snapshot.open_positions = row.open_positions
    /\ snapshot.average_salary = row.average_salary
    /\ JsonDumps(snapshot.required_skills) = row.required_skills
    /\ snapshot.company_size = row.company_size
    /\ snapshot.industry = row.industry
    /\ snapshot.last_updated = row.last_updated

NamesIn(rows) == {rows[i].name : i \in DOMAIN rows}

\* C23: no step removes a company record: every record stays at its place
\* under its name, so the set of names only grows, and a call that refreshes
\* a stale record leaves the number of records as it was.
C23_RecordsNeverDeleted ==
    [][/\ Len(store') >= Len(store)
       /\ \A i \in DOMAIN store : store'[i].name = store[i].name
       /\ NamesIn(store) \subseteq NamesIn(store')
       /\ (/\ Len(calls') = Len(calls) + 1
           /\ calls'[Len(calls')].outcome = "updated") =>
              /\ Len(store') = Len(store)
              /\ store' # store]_vars

\* A record was inserted for a new name and, a week later, a stored record
\* found under another spelling of its name was refreshed.
C23_Witness ==
    /\ \E k \in DOMAIN calls : calls[k].outcome = "inserted"
    /\ \E k \in DOMAIN calls :
          /\ calls[k].outcome = "updated"
          /\ calls[k].company # calls[k].existing[1].name
    /\ Len(store) = Len(SampleData(utc_offset)) + 1

\* C24: the recommendations of a response are what the generator returns
\* for that response's own query, market_data and market_trends.
C24_RecommendationsFromResponseData ==
    (response # <<>> /\ response[1].status = 200) =>
        LET r == response[1]
        IN  r.recommendations =
                GenerateRecommendations(r.query, r.market_data, r.market_trends)

\* A response whose gathered company data and trends both left lines in the
\* recommendations.
C24_Witness ==
    /\ response # <<>>
    /\ response[1].status = 200
    /\ response[1].market_data # <<>>
    /\ {"trend", "salary", "hiring"} \subseteq BlocksOf(response[1].recommendations)

\* A step of the clock alone, as opposed to a handled request.
ClockOnly == now' # now /\ response' = response /\ calls' = calls

\* C25: with the table reachable, a handled request appends exactly one row
\* to career_queries, made of the request's query and stamped with the time
\* at which the request started, before any company call of the request;
\* the rows stored before are left as they were.
C25_OneQueryRecordPerRequest ==
    [][(db_ok /\ ~ClockOnly) =>
          /\ Len(queries') = Len(queries) + 1
          /\ SubSeq(queries', 1, Len(queries)) = queries
          /\ LET row == queries'[Len(queries')]
                 q == response'[1].query
             IN  /\ row.field = q.field
                 /\ row.specialization = q.specialization
                 /\ row.experience_level = q.experience_level
                 /\ row.target_companies = JsonOrNone(q.target_companies)
                 /\ row.location_preference = q.location_preference
                 /\ row.created_at = UtcNow(now, utc_offset)
                 /\ \A k \in DOMAIN calls' :
                       row.created_at <= UtcNow(calls'[k].at, utc_offset)
                 /\ row.created_at <= UtcNow(response'[1].generated_at, utc_offset)]_vars

\* Two requests were handled: two rows, the second one the row of the
\* response's query, written before the request's company calls ended.
C25_Witness ==
    /\ db_ok
    /\ Len(queries) = 2
    /\ response # <<>>
    /\ queries[2].field = response[1].query.field
    /\ queries[1].field # queries[2].field
    /\ calls # <<>>
    /\ queries[2].created_at < UtcNow(response[1].generated_at, utc_offset)

\* C26 as stated: after a call that inserted or refreshed a record, the
\* snapshot returned has the name, company size, industry and last_updated
\* of the record then stored for that company, which is what a cache hit
\* that follows at once returns.
C26_Original_ReturnedEqualsStored ==
    [][(/\ Len(calls') = Len(calls) + 1
        /\ calls'[Len(calls')].outcome \in {"inserted", "updated"}) =>
          LET c == calls'[Len(calls')]
              i == FirstMatch(store', c.company)
              next == LookupCompany(store', now', TRUE, TRUE, c.company)
          IN  /\ i # 0
              /\ c.result[1].name = store'[i].name
              /\ c.result[1].company_size = store'[i].company_size
              /\ c.result[1].industry = store'[i].industry
              /\ c.result[1].last_updated = store'[i].last_updated
              /\ next.done
              /\ next.reply[1].result = c.result]_vars

\* C27 as stated: with the table reachable and no statement of the database
\* failing on its own, every call returns a snapshot, whatever other calls
\* ran between its lookup and its write.
C27_Original_AlwaysASnapshot ==
    db_ok =>
        \A k \in DOMAIN calls :
            calls[k].failed_at \notin {"lookup", "upsert", "commit"} =>
                calls[k].result # <<>>

HasWord(specialization, word) ==
    /\ specialization # NoneStr
    /\ Contains(Lower(Chars(specialization)), Chars(word))

\* C28: the response to an mba query whose specialization contains
\* "marketing" or "consulting" holds 10 recommendations, none of them an
\* experience-level line or a location line, whatever the experience level
\* and the location preference of the query.
C28_AdviceCutBeforeExperience ==
    (/\ response # <<>>
     /\ response[1].status = 200
     /\ response[1].query.field = "mba"
     /\ \/ HasWord(response[1].query.specialization, "marketing")
        \/ HasWord(response[1].query.specialization, "consulting")) =>
        LET recs == response[1].recommendations
        IN  /\ Len(recs) = RecCap
            /\ "experience" \notin BlocksOf(recs)
            /\ "location" \notin BlocksOf(recs)
            /\ HighCount(response[1].market_trends)
                 + FieldLineCount(FieldKind(response[1].query)) >= RecCap

\* A fresh graduate with a location preference and a marketing
\* specialization, no company data found: two trend lines and the first
\* eight lines of the field block.
C28_Witness ==
    /\ response # <<>>
    /\ response[1].query.field = "mba"
    /\ response[1].query.specialization = "Marketing Consultant"
    /\ response[1].query.experience_level = "fresh_graduate"
    /\ response[1].query.location_preference = "Pune"
    /\ response[1].market_data = <<>>
    /\ Len(response[1].recommendations) = RecCap
    /\ response[1].recommendations[RecCap].block = "field"

\* C29 as stated: the score lies between 0 and 100, and every essential
\* skill of the role is either listed as missing or equal, letter case
\* aside, to one of the current skills.
C29_Original_ScoreWithinHundred ==
    gap_out # <<>> =>
        LET r == gap_out[1]
            essential == GetRoleSkills(gap_in[1].target_role).essential_skills
        IN  /\ 0 <= r.skills_gap_score.num
            /\ r.skills_gap_score.num <= 100 * r.skills_gap_score.den
            /\ \A i \in DOMAIN essential :
                  \/ InList(essential[i], r.missing_essential_skills)
                  \/ \E j \in DOMAIN gap_in[1].current_skills :
                        Lower(Chars(gap_in[1].current_skills[j]))
                          = Lower(Chars(essential[i]))

\* C30 as stated: whatever failed while requests were handled, every session
\* opened by a company call or by the write of the query was closed before
\* the call returned: no session is open between requests.
C30_Original_NoSessionLeftOpen == sessions = 0
=============================================================================
